---- MODULE Spec2Model ----
(***************************************************************************)
(* A model of the guild state cache of discord.py-self: the entity stores  *)
(* of discord.Guild (guild.py), the snapshot loader Guild._from_data and   *)
(* the store operations the gateway event handlers call.                   *)
(*                                                                         *)
(* A Python dict is an insertion-ordered mapping; it is modelled as a      *)
(* sequence of <<key, value>> entries with distinct keys.  Optional[T] is  *)
(* modelled as a sequence of length at most one: None is <<>>.  An object  *)
(* reference held in a field (VoiceState.channel) is the id of the         *)
(* referent.                                                               *)
(***************************************************************************)
EXTENDS Integers, Sequences, FiniteSets, TLC

VARIABLES
    id,                 \* Guild.id
    _roles,             \* Guild._roles          Dict[int, Role]
    _channels,          \* Guild._channels       Dict[int, GuildChannel]
    _threads,           \* Guild._threads        Dict[int, Thread]
    _voice_states,      \* Guild._voice_states   Dict[int, VoiceState]
    _members,           \* Guild._members        Dict[int, Member]
    _presences,         \* the presence store of Guild._state, for this guild
    member_cache_flags, \* Guild._state.member_cache_flags
    self_id,            \* Guild._state.self_id
    snapshot,           \* the payload being loaded; None once an event is applied
    last,               \* the operation applied last: name, argument, result, exception
    chan_log,           \* history: for each channel id, the entity of its last
                        \* create/update event, None after a delete event
    snowflakes,         \* a utils.SnowflakeList: the array of its elements
    snowflake_ids,      \* history: the ids given to the list, at creation or by add
    proxy,              \* a utils.SequenceProxy held by a caller, None before one
                        \* is asked for
    proxy_reads,        \* history: the length the proxy reported at its first
                        \* read and the sequence its first materialising read gave
    _member_count,      \* Guild._member_count              Optional[int]
    _large,             \* Guild._large                     Optional[bool]
    _premium_tier,      \* Guild._premium_tier              Optional[int]
    features,           \* Guild.features                   List[str]
    premium_subscription_count, \* Guild.premium_subscription_count
    member_updates,     \* Guild._state.subscriptions.has_feature(guild,
                        \* 'member_updates')
    requests,           \* the API calls of the guild awaiting their HTTP
                        \* response: for each, the response payload in flight
    deleted,            \* history: the channel and role ids whose last applied
                        \* gateway event is a delete event
    expiring            \* a utils.ExpiringString, its threading.Timer threads and
                        \* the position of the thread calling its methods

vars == <<id, _roles, _channels, _threads, _voice_states, _members, _presences,
          member_cache_flags, self_id, snapshot, last, chan_log,
          snowflakes, snowflake_ids, proxy, proxy_reads,
          _member_count, _large, _premium_tier, features,
          premium_subscription_count, member_updates, requests, deleted,
          expiring>>

-----------------------------------------------------------------------------
(* Bounds of the model *)

NumChannels == 2
NumThreads == 2
NumUsers == 2
MaxPosition == 1
MaxRoles == 3

ChannelIds == 10 .. (9 + NumChannels)
ThreadIds == 30 .. (29 + NumThreads)
UserIds == 20 .. (19 + NumUsers)
Positions == 0 .. MaxPosition
RoleIds == {1, 5, 9}

-----------------------------------------------------------------------------
(* Optional values and Python dicts *)

None == <<>>

Some(v) == <<v>>

SeqFilterOut(d, k) == SelectSeq(d, LAMBDA entry : entry[1] # k)

DictKeys(d) == {d[i][1] : i \in DOMAIN d}

DictHas(d, k) == k \in DictKeys(d)

DictIndex(d, k) == CHOOSE i \in DOMAIN d : d[i][1] = k

\* d.get(k): the value, or None
DictGet(d, k) == IF DictHas(d, k) THEN Some(d[DictIndex(d, k)][2]) ELSE None

\* d[k] = v: replaces the value of a present key where it stands, appends a new key
DictSet(d, k, v) ==
    IF DictHas(d, k) THEN [d EXCEPT ![DictIndex(d, k)] = <<k, v>>]
    ELSE Append(d, <<k, v>>)

\* del d[k] / d.pop(k) on a present key; the identity on an absent one
DictDel(d, k) == SeqFilterOut(d, k)

\* The outcome of a call: the exception it raised, if any
NoError == ""

\* d.pop(k): removes and returns the value; raises KeyError on an absent key
DictPop(d, k) ==
    IF DictHas(d, k)
    THEN [d |-> DictDel(d, k), ret |-> DictGet(d, k), raised |-> NoError]
    ELSE [d |-> d, ret |-> None, raised |-> "KeyError"]

\* d.pop(k, default): removes and returns the value; the default on an absent key
DictPopDefault(d, k, default) ==
    IF DictHas(d, k)
    THEN [d |-> DictDel(d, k), ret |-> DictGet(d, k), raised |-> NoError]
    ELSE [d |-> d, ret |-> default, raised |-> NoError]

\* list(d.values())
DictValues(d) == [i \in DOMAIN d |-> d[i][2]]

\* A payload is a dict with string keys, a record: key in payload
HasKey(payload, key) == key \in DOMAIN payload

\* payload.get(key, default)
PayloadGet(payload, key, default) ==
    IF HasKey(payload, key) THEN payload[key] ELSE default

-----------------------------------------------------------------------------
(* The entities the stores hold.  Their classes live outside guild.py; each *)
(* is the record of the fields the guild reads.                             *)

\* Role(guild=, data=, state=)
Role(data) == [id |-> data.id, position |-> data.position]

\* _guild_channel_factory(type): a constructor for the recognised kinds, None otherwise
ChannelTypes == {"text", "voice", "category"}

_guild_channel_factory(type) == IF type \in ChannelTypes THEN Some(type) ELSE None

\* factory(guild=, data=, state=)
GuildChannel(data) ==
    [id |-> data.id, type |-> data.type, position |-> data.position,
     category_id |-> data.parent_id]

\* Thread(guild=, state=, data=)
Thread(data) == [id |-> data.id, parent_id |-> data.parent_id]

\* Member(data=, guild=, state=): _presence is the staged presence payload
Member(data) == [id |-> data.user_id, _presence |-> data.presence]

\* VoiceState(data=, channel=): channel is Optional[channel], kept as its id
ChannelRef(channel) == IF channel = None THEN None ELSE Some(channel[1].id)

VoiceState(data, channel) ==
    [channel |-> ChannelRef(channel), self_mute |-> data.self_mute]

\* VoiceState._update(data, channel) overwrites the fields of the object in place
VoiceState_update(vs, data, channel) ==
    [vs EXCEPT !.channel = ChannelRef(channel), !.self_mute = data.self_mute]

\* ConnectionState.store_presence(user_id, presence, guild_id)
store_presence(self, user_id) ==
    [self EXCEPT !._presences = @ \cup {user_id}]

\* ConnectionState.remove_presence(user_id, guild_id)
remove_presence(self, user_id) ==
    [self EXCEPT !._presences = @ \ {user_id}]

-----------------------------------------------------------------------------
(* Guild: the store operations.  self is the record of the guild's fields; *)
(* an operation called only by other operations yields the new self, one   *)
(* called by an event handler yields [self, ret, raised].                  *)

Result(self, ret, raised) == [self |-> self, ret |-> ret, raised |-> raised]

\* A store that appends on every create instead of replacing by id
_add_channel_appending(self, channel) ==
    [self EXCEPT !._channels = Append(@, <<channel.id, channel>>)]

_add_channel(self, channel) ==
    [self EXCEPT !._channels = DictSet(@, channel.id, channel)]

\* A channel remove that hands the popped channel to its caller
_remove_channel_returning(self, channel_id) ==
    LET popped == DictPopDefault(self._channels, channel_id, None)
    IN  Result([self EXCEPT !._channels = popped.d], popped.ret, popped.raised)

\* A channel remove that also drops the threads of the channel
_remove_channel_cascading(self, channel_id) ==
    LET popped == DictPopDefault(self._channels, channel_id, None)
    IN  Result([self EXCEPT !._channels = popped.d,
                            !._threads = SelectSeq(@, LAMBDA e :
                                                      e[2].parent_id # channel_id)],
               None, popped.raised)

\* self._channels.pop(channel.id, None); the method returns None
_remove_channel(self, channel_id) ==
    LET popped == DictPopDefault(self._channels, channel_id, None)
    IN  Result([self EXCEPT !._channels = popped.d], None, popped.raised)

_voice_state_for(self, user_id) == DictGet(self._voice_states, user_id)

\* An add that forwards the staged presence and leaves it on the member entry
_add_member_keeping_presence(self, member) ==
    LET added == [self EXCEPT !._members = DictSet(@, member.id, member)]
    IN  IF member._presence # None THEN store_presence(added, member.id) ELSE added

_add_member(self, member) ==
    LET added == [self EXCEPT !._members = DictSet(@, member.id, member)]
    IN  IF member._presence # None
        THEN [store_presence(added, member.id) EXCEPT
                 !._members = DictSet(@, member.id, [member EXCEPT !._presence = None])]
        ELSE added

\* A remove that evicts the presence only of a member it found in the store
_remove_member_cached_only(self, member_id) ==
    LET popped == DictPopDefault(self._members, member_id, None)
        removed == [self EXCEPT !._members = popped.d]
    IN  Result(IF popped.ret # None THEN remove_presence(removed, member_id)
               ELSE removed,
               None, popped.raised)

_remove_member(self, member_id) ==
    LET popped == DictPopDefault(self._members, member_id, None)
    IN  Result(remove_presence([self EXCEPT !._members = popped.d], member_id),
               None, popped.raised)

_add_thread(self, thread) ==
    [self EXCEPT !._threads = DictSet(@, thread.id, thread)]

\* A query that returns the whole thread store
_filter_threads_unfiltered(self, channel_ids) == self._threads

\* {k: t for k, t in self._threads.items() if t.parent_id in channel_ids}
_filter_threads(self, channel_ids) ==
    SelectSeq(self._threads, LAMBDA item : item[2].parent_id \in channel_ids)

\* A remove that pops without a default, so an absent id raises
_remove_thread_strict(self, thread_id) ==
    LET popped == DictPop(self._threads, thread_id)
    IN  Result([self EXCEPT !._threads = popped.d], None, popped.raised)

\* self._threads.pop(thread.id, None); the method returns None
_remove_thread(self, thread_id) ==
    LET popped == DictPopDefault(self._threads, thread_id, None)
    IN  Result([self EXCEPT !._threads = popped.d], None, popped.raised)

RECURSIVE ThreadsOfChannel(_, _)
ThreadsOfChannel(values, channel_id) ==
    IF values = <<>> THEN <<>>
    ELSE (IF Head(values).parent_id = channel_id THEN <<Head(values)>> ELSE <<>>)
         \o ThreadsOfChannel(Tail(values), channel_id)

RECURSIVE DelAll(_, _)
DelAll(d, to_remove) ==
    IF to_remove = <<>> THEN d
    ELSE DelAll(DictDel(d, Head(to_remove).id), Tail(to_remove))

\* A cascade that forgets the parent filter and drops every thread
_remove_threads_by_channel_all(self, channel_id) ==
    LET to_remove == DictValues(self._threads)
    IN  Result([self EXCEPT !._threads = DelAll(@, to_remove)], to_remove, NoError)

\* A cascade that stops after the first thread of the channel
_remove_threads_by_channel_first(self, channel_id) ==
    LET found == ThreadsOfChannel(DictValues(self._threads), channel_id)
        to_remove == IF found = <<>> THEN <<>> ELSE <<Head(found)>>
    IN  Result([self EXCEPT !._threads = DelAll(@, to_remove)], to_remove, NoError)

_remove_threads_by_channel(self, channel_id) ==
    LET to_remove == ThreadsOfChannel(DictValues(self._threads), channel_id)
    IN  Result([self EXCEPT !._threads = DelAll(@, to_remove)], to_remove, NoError)

\* A lookup that falls back on the thread store, as Guild.get_channel_or_thread does
get_channel_or_thread(self, channel_id) ==
    IF channel_id = None THEN None
    ELSE IF DictHas(self._channels, channel_id[1])
         THEN DictGet(self._channels, channel_id[1])
         ELSE DictGet(self._threads, channel_id[1])

get_channel(self, channel_id) ==
    IF channel_id = None THEN None ELSE DictGet(self._channels, channel_id[1])

get_member(self, user_id) == DictGet(self._members, user_id)

get_role(self, role_id) == DictGet(self._roles, role_id)

_add_role(self, role) ==
    [self EXCEPT !._roles = DictSet(@, role.id, role)]

\* A remove that pops with a default, so an absent id is passed over silently
_remove_role_lenient(self, role_id) ==
    LET popped == DictPopDefault(self._roles, role_id, None)
    IN  Result([self EXCEPT !._roles = popped.d], popped.ret, popped.raised)

\* return self._roles.pop(role_id): "This raises KeyError if it fails.."
_remove_role(self, role_id) ==
    LET popped == DictPop(self._roles, role_id)
    IN  Result([self EXCEPT !._roles = popped.d], popped.ret, popped.raised)

\* Guild.create_text_channel, from the response of the awaited
\* self._create_channel(...) on: the channel is built from the response and
\* written to the store ("temporarily add to the cache")
create_text_channel(self, data) ==
    LET channel == GuildChannel(data)
    IN  Result([self EXCEPT !._channels = DictSet(@, channel.id, channel)],
               Some(channel), NoError)

\* Guild.edit_role_positions, from the response of the awaited
\* http.move_role_position(...) on: every role of the response is written to
\* the store
RECURSIVE StoreRoles(_, _)
StoreRoles(self, data) ==
    IF data = <<>> THEN self
    ELSE StoreRoles([self EXCEPT !._roles = DictSet(@, Head(data).id, Role(Head(data)))],
                    Tail(data))

edit_role_positions(self, data) ==
    Result(StoreRoles(self, data), Some([i \in DOMAIN data |-> Role(data[i])]), NoError)

\* The member count from which a guild is 'large': the literal of Guild.large
large_threshold == 250

\* A 'large' that never looks at the member count
large_by_store(self) ==
    IF self._large = None
    THEN Len(self._members) >= large_threshold
    ELSE self._large[1]

\* Guild.large
large(self) ==
    IF self._large = None
    THEN IF self._member_count # None
         THEN self._member_count[1] >= large_threshold
         ELSE Len(self._members) >= large_threshold
    ELSE self._large[1]

\* A 'chunked' that never looks at the member store
chunked_by_count(self) ==
    LET count == self._member_count
    IN  IF count = None THEN FALSE ELSE self.member_updates

\* Guild.chunked; self.member_updates is
\* self._state.subscriptions.has_feature(self, 'member_updates')
chunked(self) ==
    LET count == self._member_count
    IN  IF count = None THEN FALSE
        ELSE count[1] = Len(self._members) /\ self.member_updates

\* channel._sorting_bucket: the place of a channel's kind among its siblings
_sorting_bucket(channel) ==
    CASE channel.type = "text" -> 0
      [] channel.type = "voice" -> 2
      [] OTHER -> 4

\* by_category, first loop: grouped maps a category id, or the category_id of a
\* channel (None for a channel without one), to the list of its channels
RECURSIVE GroupByCategory(_, _)
GroupByCategory(grouped, channels) ==
    IF channels = <<>> THEN grouped
    ELSE LET channel == Head(channels)
             k == IF channel.type = "category" THEN Some(channel.id)
                  ELSE channel.category_id
         IN  GroupByCategory(
                 IF channel.type = "category"
                 THEN IF DictHas(grouped, k) THEN grouped
                      ELSE Append(grouped, <<k, <<>>>>)
                 ELSE IF DictHas(grouped, k)
                      THEN DictSet(grouped, k, Append(DictGet(grouped, k)[1], channel))
                      ELSE Append(grouped, <<k, <<channel>>>>),
                 Tail(channels))

\* key(t) of by_category, without the list: (k.position, k.id) if k else (-1, -1)
ByCategoryKey(t) ==
    IF t[1] # None THEN <<t[1][1].position, t[1][1].id>> ELSE <<-1, -1>>

PairLess(a, b) == a[1] < b[1] \/ (a[1] = b[1] /\ a[2] < b[2])

\* key(a) < key(b): the pairs decide; on equal pairs the lists of channels are
\* compared, and as the lists of two groups start with different channels that
\* is channel < channel, whose answer is channel_lt
ByCategoryItemLess(a, b, channel_lt) ==
    \/ PairLess(ByCategoryKey(a), ByCategoryKey(b))
    \/ (ByCategoryKey(a) = ByCategoryKey(b) /\ channel_lt = "less")

\* as_list.sort(key=key): a stable sort that compares with < only
RECURSIVE InsertByCategoryItem(_, _, _)
InsertByCategoryItem(xs, x, channel_lt) ==
    IF xs = <<>> THEN <<x>>
    ELSE IF ByCategoryItemLess(x, Head(xs), channel_lt) THEN <<x>> \o xs
         ELSE <<Head(xs)>> \o InsertByCategoryItem(Tail(xs), x, channel_lt)

RECURSIVE SortedByCategoryItems(_, _)
SortedByCategoryItems(xs, channel_lt) ==
    IF xs = <<>> THEN <<>>
    ELSE InsertByCategoryItem(SortedByCategoryItems(SubSeq(xs, 1, Len(xs) - 1), channel_lt),
                              xs[Len(xs)], channel_lt)

\* attrgetter('_sorting_bucket', 'position', 'id')(a) < (b)
ChannelKeyLess(a, b) ==
    \/ _sorting_bucket(a) < _sorting_bucket(b)
    \/ /\ _sorting_bucket(a) = _sorting_bucket(b)
       /\ PairLess(<<a.position, a.id>>, <<b.position, b.id>>)

\* channels.sort(key=attrgetter('_sorting_bucket', 'position', 'id'))
RECURSIVE InsertChannel(_, _)
InsertChannel(xs, x) ==
    IF xs = <<>> THEN <<x>>
    ELSE IF ChannelKeyLess(x, Head(xs)) THEN <<x>> \o xs
         ELSE <<Head(xs)>> \o InsertChannel(Tail(xs), x)

RECURSIVE SortedChannels(_)
SortedChannels(xs) ==
    IF xs = <<>> THEN <<>>
    ELSE InsertChannel(SortedChannels(SubSeq(xs, 1, Len(xs) - 1)), xs[Len(xs)])

\* Guild.by_category().  channel_lt is what channel < channel does when the sort
\* of the groups comes to it: "TypeError" (the channel classes define no
\* order), "less" or "not less"
by_category(self, channel_lt) ==
    LET grouped == GroupByCategory(<<>>, DictValues(self._channels))
        as_list == [i \in DOMAIN grouped |->
                       <<get_channel(self, grouped[i][1]), grouped[i][2]>>]
        tied    == \E i, j \in DOMAIN as_list :
                       i # j /\ ByCategoryKey(as_list[i]) = ByCategoryKey(as_list[j])
        sorted  == SortedByCategoryItems(as_list, channel_lt)
    IN  IF tied /\ channel_lt = "TypeError"
        THEN Result(self, None, "TypeError")
        ELSE Result(self,
                    [i \in DOMAIN sorted |-> <<sorted[i][1], SortedChannels(sorted[i][2])>>],
                    NoError)

\* [ch for ch in self._channels.values() if isinstance(ch, Kind)]: the channel
\* classes are one per kind, none a subclass of another
ChannelsOfKind(self, kind) ==
    SelectSeq(DictValues(self._channels), LAMBDA ch : ch.type = kind)

\* attrgetter('position', 'id')(a) < (b)
PositionKeyLess(a, b) == PairLess(<<a.position, a.id>>, <<b.position, b.id>>)

\* r.sort(key=attrgetter('position', 'id')): a stable sort that compares with < only
RECURSIVE InsertByPosition(_, _)
InsertByPosition(xs, x) ==
    IF xs = <<>> THEN <<x>>
    ELSE IF PositionKeyLess(x, Head(xs)) THEN <<x>> \o xs
         ELSE <<Head(xs)>> \o InsertByPosition(Tail(xs), x)

RECURSIVE SortedByPosition(_)
SortedByPosition(xs) ==
    IF xs = <<>> THEN <<>>
    ELSE InsertByPosition(SortedByPosition(SubSeq(xs, 1, Len(xs) - 1)), xs[Len(xs)])

\* A listing that returns the channels in the order of the store
text_channels_unsorted(self) == ChannelsOfKind(self, "text")

text_channels(self) == SortedByPosition(ChannelsOfKind(self, "text"))

voice_channels(self) == SortedByPosition(ChannelsOfKind(self, "voice"))

stage_channels(self) == SortedByPosition(ChannelsOfKind(self, "stage"))

categories(self) == SortedByPosition(ChannelsOfKind(self, "category"))

forums(self) == SortedByPosition(ChannelsOfKind(self, "forum"))

directory_channels(self) == SortedByPosition(ChannelsOfKind(self, "directory"))

\* A premium tier that does not know the override feature
premium_tier_without_override(self) ==
    LET tier == self._premium_tier
        count == self.premium_subscription_count
    IN  IF tier # None THEN tier[1]
        ELSE IF count < 2 THEN 0
        ELSE IF count < 7 THEN 1
        ELSE IF count < 14 THEN 2
        ELSE 3

\* Guild.premium_tier
premium_tier(self) ==
    LET tier == self._premium_tier
        count == self.premium_subscription_count
    IN  IF tier # None THEN tier[1]
        ELSE IF \E i \in DOMAIN self.features :
                    self.features[i] = "PREMIUM_TIER_3_OVERRIDE" THEN 3
        ELSE IF count < 2 THEN 0
        ELSE IF count < 7 THEN 1
        ELSE IF count < 14 THEN 2
        ELSE 3

default_role(self) == get_role(self, self.id)

\* Role.__lt__: the hierarchy order of two roles, by (position, id)
Role_lt(a, b) ==
    \/ a.position < b.position
    \/ (a.position = b.position /\ a.id < b.id)

\* sorted(values) for roles: a stable sort that compares with < only
RECURSIVE InsertSorted(_, _)
InsertSorted(xs, x) ==
    IF xs = <<>> THEN <<x>>
    ELSE IF Role_lt(x, Head(xs)) THEN <<x>> \o xs
         ELSE <<Head(xs)>> \o InsertSorted(Tail(xs), x)

RECURSIVE SortedRoles(_)
SortedRoles(xs) ==
    IF xs = <<>> THEN <<>>
    ELSE InsertSorted(SortedRoles(SubSeq(xs, 1, Len(xs) - 1)), xs[Len(xs)])

\* SequenceProxy.__copied: the list a read of the proxy is served from
SequenceProxy__copied(proxied, sorted) ==
    IF sorted THEN SortedRoles(proxied) ELSE proxied

\* A listing that asks for no sorting
roles_unsorted(self) == SequenceProxy__copied(DictValues(self._roles), FALSE)

\* Guild.roles, as read
roles(self) == SequenceProxy__copied(DictValues(self._roles), TRUE)

\* A try block that reads the entry without popping it when the channel is None
VoiceStateBranch_keeping(self, data, channel) ==
    LET user_id == data.user_id
        found   == DictGet(self._voice_states, user_id)[1]
    IN  IF DictHas(self._voice_states, user_id)
        THEN [self   |-> [self EXCEPT !._voice_states =
                             DictSet(@, user_id,
                                     VoiceState_update(found, data, channel))],
              before |-> found,
              after  |-> VoiceState_update(found, data, channel)]
        ELSE [self   |-> [self EXCEPT !._voice_states =
                             DictSet(@, user_id, VoiceState(data, channel))],
              before |-> VoiceState(data, None),
              after  |-> VoiceState(data, channel)]

\* A try block that hands out the stored entry itself as 'before', with no copy
VoiceStateBranch_aliasing(self, data, channel) ==
    LET r == VoiceStateBranch_keeping(self, data, channel)
    IN  IF DictHas(self._voice_states, data.user_id) /\ channel # None
        THEN [r EXCEPT !.before = r.after]
        ELSE r

\* An except block that builds 'before' with the channel of 'after'
VoiceStateBranch_connected(self, data, channel) ==
    LET r == VoiceStateBranch_keeping(self, data, channel)
    IN  IF DictHas(self._voice_states, data.user_id)
        THEN r
        ELSE [r EXCEPT !.before = VoiceState(data, channel)]

\* The first half of _update_voice_state: the try/except over the voice-state
\* store.  pop(user_id) and [user_id] raise KeyError for an absent user, and the
\* handler of KeyError inserts a new entry whatever the channel is.
VoiceStateBranch(self, data, channel) ==
    LET user_id == data.user_id
        present == DictHas(self._voice_states, user_id)
        found   == DictGet(self._voice_states, user_id)[1]
    IN  IF present
        THEN [self   |-> [self EXCEPT !._voice_states =
                             IF channel = None
                             THEN DictDel(@, user_id)
                             ELSE DictSet(@, user_id,
                                          VoiceState_update(found, data, channel))],
              before |-> found,
              after  |-> VoiceState_update(found, data, channel)]
        ELSE [self   |-> [self EXCEPT !._voice_states =
                             DictSet(@, user_id, VoiceState(data, channel))],
              before |-> VoiceState(data, None),
              after  |-> VoiceState(data, channel)]

\* An update that caches the embedded member whatever the cache flags say
_update_voice_state_always_caching(self, data, channel_id) ==
    LET user_id == data.user_id
        vs      == VoiceStateBranch(self, data, get_channel(self, channel_id))
        cached  == get_member(vs.self, user_id)
        member  == IF cached # None THEN cached
                   ELSE IF data.member # None THEN Some(Member(data.member[1]))
                   ELSE None
    IN  Result(IF cached = None /\ member # None
               THEN _add_member(vs.self, member[1]) ELSE vs.self,
               [member |-> member, before |-> vs.before, after |-> vs.after],
               NoError)

_update_voice_state(self, data, channel_id) ==
    LET cache_flags == self.member_cache_flags
        user_id     == data.user_id
        channel     == get_channel(self, channel_id)
        vs          == VoiceStateBranch(self, data, channel)
        cached      == get_member(vs.self, user_id)
        member      == IF cached # None THEN cached
                       ELSE IF data.member # None THEN Some(Member(data.member[1]))
                       ELSE None
        after_self  == IF cached = None /\ member # None /\ cache_flags.voice
                       THEN _add_member(vs.self, member[1])
                       ELSE vs.self
    IN  Result(after_self,
               [member |-> member, before |-> vs.before, after |-> vs.after],
               NoError)

-----------------------------------------------------------------------------
(* Guild.__init__ and the snapshot loader Guild._from_data *)

\* The loops of _from_data.  self.raised is the exception that has ended the
\* load, if any: a loop reached after it does nothing.
RECURSIVE LoadRoles(_, _)
LoadRoles(self, rs) ==
    IF rs = <<>> \/ self.raised # NoError THEN self
    ELSE LoadRoles([self EXCEPT !._roles = DictSet(@, Head(rs).id, Role(Head(rs)))],
                   Tail(rs))

\* A channel loop that asks no factory and stores the entries of every kind
RECURSIVE LoadChannels_unfiltered(_, _)
LoadChannels_unfiltered(self, cs) ==
    IF cs = <<>> \/ self.raised # NoError THEN self
    ELSE IF ~HasKey(Head(cs), "type") THEN [self EXCEPT !.raised = "KeyError"]
    ELSE LoadChannels_unfiltered(_add_channel(self, GuildChannel(Head(cs))), Tail(cs))

RECURSIVE LoadChannels(_, _)
LoadChannels(self, cs) ==
    IF cs = <<>> \/ self.raised # NoError THEN self
    ELSE IF ~HasKey(Head(cs), "type") THEN [self EXCEPT !.raised = "KeyError"]
    ELSE LoadChannels(IF _guild_channel_factory(Head(cs).type) # None
                      THEN _add_channel(self, GuildChannel(Head(cs)))
                      ELSE self,
                      Tail(cs))

RECURSIVE LoadThreads(_, _)
LoadThreads(self, ts) ==
    IF ts = <<>> \/ self.raised # NoError THEN self
    ELSE LoadThreads(_add_thread(self, Thread(Head(ts))), Tail(ts))

RECURSIVE LoadVoiceStates(_, _)
LoadVoiceStates(self, vss) ==
    IF vss = <<>> \/ self.raised # NoError THEN self
    ELSE IF ~HasKey(Head(vss), "channel_id")
         THEN [self EXCEPT !.raised = "KeyError"]
    ELSE LoadVoiceStates(
             _update_voice_state(self, Head(vss), Some(Head(vss).channel_id)).self,
             Tail(vss))

\* A member loop that caches every member of the list
RECURSIVE LoadMembers_unconditional(_, _)
LoadMembers_unconditional(self, ms) ==
    IF ms = <<>> \/ self.raised # NoError THEN self
    ELSE LoadMembers_unconditional(_add_member(self, Member(Head(ms))), Tail(ms))

RECURSIVE LoadMembers(_, _)
LoadMembers(self, ms) ==
    IF ms = <<>> \/ self.raised # NoError THEN self
    ELSE LET member == Member(Head(ms))
             cache_flags == self.member_cache_flags
         IN  LoadMembers(
                 IF \/ cache_flags.joined
                    \/ member.id = self.self_id
                    \/ (cache_flags.voice /\ DictHas(self._voice_states, member.id))
                 THEN _add_member(self, member)
                 ELSE self,
                 Tail(ms))

RECURSIVE LoadPresences(_, _)
LoadPresences(self, ps) ==
    IF ps = <<>> \/ self.raised # NoError THEN self
    ELSE LoadPresences(store_presence(self, Head(ps)), Tail(ps))

\* The head of _from_data: guild['member_count'] inside try/except KeyError,
\* int(guild['id']), which raises KeyError without the key, and 'unavailable'
LoadIdentity(self, guild) ==
    LET counted == IF HasKey(guild, "member_count")
                   THEN [self EXCEPT !._member_count = Some(guild.member_count)]
                   ELSE self
    IN  IF ~HasKey(guild, "id") THEN [counted EXCEPT !.raised = "KeyError"]
        ELSE [counted EXCEPT
                 !.id = guild.id,
                 !._member_count = IF PayloadGet(guild, "unavailable", FALSE)
                                   THEN Some(0) ELSE @]

\* payload.get(key): the value, or None
PayloadGetOptional(payload, key) ==
    IF HasKey(payload, key) THEN Some(payload[key]) ELSE None

\* The scalar attributes _from_data reads between the threads and the voice
\* states: guild.get(...) for each, guild['large'] inside try/except KeyError
LoadAttributes(self, guild) ==
    IF self.raised # NoError THEN self
    ELSE [self EXCEPT
             !.features = PayloadGet(guild, "features", <<>>),
             !._premium_tier = PayloadGetOptional(guild, "premium_tier"),
             !.premium_subscription_count =
                 PayloadGet(guild, "premium_subscription_count", 0),
             !._large = IF HasKey(guild, "large") THEN Some(guild.large) ELSE @]

\* A loader that considers the members before it loads the voice states
_from_data_members_first(self, guild) ==
    LoadPresences(
      LoadVoiceStates(
        LoadMembers(
          LoadAttributes(
            LoadThreads(
              LoadChannels(
                LoadRoles(LoadIdentity(self, guild),
                          PayloadGet(guild, "roles", <<>>)),
                PayloadGet(guild, "channels", <<>>)),
              PayloadGet(guild, "threads", <<>>)),
            guild),
          PayloadGet(guild, "members", <<>>)),
        PayloadGet(guild, "voice_states", <<>>)),
      PayloadGet(guild, "presences", <<>>))

\* Every list is read with guild.get(key, [])
_from_data(self, guild) ==
    LoadPresences(
      LoadMembers(
        LoadVoiceStates(
          LoadAttributes(
            LoadThreads(
              LoadChannels(
                LoadRoles(LoadIdentity(self, guild),
                          PayloadGet(guild, "roles", <<>>)),
                PayloadGet(guild, "channels", <<>>)),
              PayloadGet(guild, "threads", <<>>)),
            guild),
          PayloadGet(guild, "voice_states", <<>>)),
        PayloadGet(guild, "members", <<>>)),
      PayloadGet(guild, "presences", <<>>))

\* Guild._create_unavailable(state=, guild_id=): data is {'id': guild_id,
\* 'unavailable': True}, so every list of the payload is absent and reads as []
UnavailableData(guild_id) ==
    [id |-> guild_id, roles |-> <<>>, channels |-> <<>>, threads |-> <<>>,
     voice_states |-> <<>>, members |-> <<>>, presences |-> <<>>]

\* Guild.__init__(data=, state=): empty stores, then _from_data(data)
Guild(data, state) ==
    _from_data([id |-> None, _roles |-> <<>>, _channels |-> <<>>, _threads |-> <<>>,
                _voice_states |-> <<>>, _members |-> <<>>,
                _presences |-> {},
                member_cache_flags |-> state.member_cache_flags,
                self_id |-> state.self_id,
                _member_count |-> None, _large |-> None,
                _premium_tier |-> None, features |-> <<>>,
                premium_subscription_count |-> 0,
                member_updates |-> state.member_updates,
                raised |-> NoError],
               data)

-----------------------------------------------------------------------------
(* The state machine: the guild's fields, and one action per store operation *)

Self ==
    [id |-> id, _roles |-> _roles, _channels |-> _channels, _threads |-> _threads,
     _voice_states |-> _voice_states, _members |-> _members,
     _presences |-> _presences, member_cache_flags |-> member_cache_flags,
     self_id |-> self_id, _member_count |-> _member_count, _large |-> _large,
     _premium_tier |-> _premium_tier, features |-> features,
     premium_subscription_count |-> premium_subscription_count,
     member_updates |-> member_updates]

\* The guild's fields after an operation
Assigned(self) ==
    /\ id' = self.id
    /\ _roles' = self._roles
    /\ _channels' = self._channels
    /\ _threads' = self._threads
    /\ _voice_states' = self._voice_states
    /\ _members' = self._members
    /\ _presences' = self._presences
    /\ member_cache_flags' = self.member_cache_flags
    /\ self_id' = self.self_id
    /\ _member_count' = self._member_count
    /\ _large' = self._large
    /\ _premium_tier' = self._premium_tier
    /\ features' = self.features
    /\ premium_subscription_count' = self.premium_subscription_count
    /\ member_updates' = self.member_updates

\* An operation a gateway event handler calls: no API call is involved
Becomes(self) ==
    /\ Assigned(self)
    /\ UNCHANGED <<snowflakes, snowflake_ids, proxy, proxy_reads, requests, deleted,
                   expiring>>

Constructed(self) ==
    /\ id = self.id
    /\ _roles = self._roles
    /\ _channels = self._channels
    /\ _threads = self._threads
    /\ _voice_states = self._voice_states
    /\ _members = self._members
    /\ _presences = self._presences
    /\ member_cache_flags = self.member_cache_flags
    /\ self_id = self.self_id
    /\ _member_count = self._member_count
    /\ _large = self._large
    /\ _premium_tier = self._premium_tier
    /\ features = self.features
    /\ premium_subscription_count = self.premium_subscription_count
    /\ member_updates = self.member_updates

\* What the caller of an operation sees: its name and argument, whether the key
\* it names was in the store when it was called, its result and its exception.
Called(op, arg, hit, ret, raised) ==
    [op |-> op, arg |-> arg, hit |-> hit, ret |-> ret, raised |-> raised]

\* The payloads of the events and of the snapshot lists
ChannelData(types, positions) ==
    {c \in [id : ChannelIds, type : types, position : positions,
            parent_id : {None} \cup {Some(p) : p \in ChannelIds}] :
        /\ c.parent_id # Some(c.id)
        /\ c.type = "category" => c.parent_id = None}

ThreadData == [id : ThreadIds, parent_id : ChannelIds]

RoleData == [id : RoleIds, position : Positions]

MemberData == [user_id : UserIds, presence : {None, Some("presence")}]

\* A voice-state payload; the member data it may embed are those of its own user
VoiceData(mutes, embedding) ==
    {d \in [user_id : UserIds, self_mute : mutes,
            member : {None} \cup {Some(m) : m \in MemberData}] :
        d.member # None =>
            /\ d.member[1].user_id = d.user_id
            /\ d.member[1].presence = None
            /\ d.user_id \in embedding}

Snapshot(gid, rs, cs, ts, vss, ms, ps) ==
    [id |-> gid, roles |-> rs, channels |-> cs, threads |-> ts,
     voice_states |-> vss, members |-> ms, presences |-> ps]

\* The last recognised entry of a snapshot's channel list with the given id
SnapshotChannel(cs, cid) ==
    LET at == {i \in DOMAIN cs :
                  /\ cs[i].id = cid
                  /\ HasKey(cs[i], "type")
                  /\ _guild_channel_factory(cs[i].type) # None}
    IN  IF at = {} THEN None
        ELSE Some(GuildChannel(cs[CHOOSE i \in at : \A j \in at : j <= i]))

\* No proxy, or a proxy made for a store that has served no read
NoReads == [store |-> None, len |-> None, list |-> None]

NewReads(store) == [NoReads EXCEPT !.store = Some(store)]

\* No API call is awaiting its response
NoRequests == [create_text_channel |-> None, edit_role_positions |-> None]

\* No delete event has been applied
NoneDeleted == [channels |-> {}, roles |-> {}]

\* No ExpiringString has been constructed
NoString == [data |-> "", _timer |-> None, timers |-> <<>>, pc |-> "none", local |-> ""]

InitFrom(data, state) ==
    /\ Constructed(Guild(data, state))
    /\ snapshot = data
    /\ last = LET raised == Guild(data, state).raised
              IN  Called("__init__", None, FALSE,
                         IF raised = NoError THEN Some("guild") ELSE None, raised)
    /\ chan_log = [c \in ChannelIds |->
                      SnapshotChannel(PayloadGet(data, "channels", <<>>), c)]
    /\ snowflakes = <<>>
    /\ snowflake_ids = {}
    /\ proxy = None
    /\ proxy_reads = NoReads
    /\ requests = NoRequests
    /\ deleted = NoneDeleted
    /\ expiring = NoString

\* CHANNEL_CREATE / CHANNEL_UPDATE
AddChannel(data) ==
    /\ Becomes(_add_channel(Self, GuildChannel(data)))
    /\ last' = Called("_add_channel", data.id, DictHas(_channels, data.id),
                      None, NoError)
    /\ chan_log' = [chan_log EXCEPT ![data.id] = Some(GuildChannel(data))]
    /\ snapshot' = None

\* CHANNEL_DELETE, first call: the channel store
RemoveChannel(channel_id) ==
    LET r == _remove_channel(Self, channel_id)
    IN  /\ Becomes(r.self)
        /\ last' = Called("_remove_channel", channel_id,
                          DictHas(_channels, channel_id), r.ret, r.raised)
        /\ chan_log' = [chan_log EXCEPT ![channel_id] = None]
        /\ snapshot' = None

\* CHANNEL_DELETE, second call: the threads of the channel
RemoveThreadsByChannel(channel_id) ==
    LET r == _remove_threads_by_channel(Self, channel_id)
    IN  /\ Becomes(r.self)
        /\ last' = Called("_remove_threads_by_channel", channel_id,
                          DictHas(_channels, channel_id), r.ret, r.raised)
        /\ snapshot' = None
        /\ UNCHANGED chan_log

\* THREAD_CREATE
AddThread(data) ==
    /\ Becomes(_add_thread(Self, Thread(data)))
    /\ last' = Called("_add_thread", data.id, DictHas(_threads, data.id),
                      None, NoError)
    /\ snapshot' = None
    /\ UNCHANGED chan_log

\* THREAD_DELETE
RemoveThread(thread_id) ==
    LET r == _remove_thread(Self, thread_id)
    IN  /\ Becomes(r.self)
        /\ last' = Called("_remove_thread", thread_id,
                          DictHas(_threads, thread_id), r.ret, r.raised)
        /\ snapshot' = None
        /\ UNCHANGED chan_log

\* GUILD_MEMBER_ADD
AddMember(data) ==
    /\ Becomes(_add_member(Self, Member(data)))
    /\ last' = Called("_add_member", Member(data), DictHas(_members, data.user_id),
                      None, NoError)
    /\ snapshot' = None
    /\ UNCHANGED chan_log

\* GUILD_MEMBER_REMOVE
RemoveMember(user_id) ==
    LET r == _remove_member(Self, user_id)
    IN  /\ Becomes(r.self)
        /\ last' = Called("_remove_member", user_id,
                          DictHas(_members, user_id), r.ret, r.raised)
        /\ snapshot' = None
        /\ UNCHANGED chan_log

\* VOICE_STATE_UPDATE; the argument recorded is the payload, its user, the
\* channel id passed and the channel resolved
UpdateVoiceState(data, channel_id) ==
    LET r == _update_voice_state(Self, data, channel_id)
    IN  /\ Becomes(r.self)
        /\ last' = Called("_update_voice_state",
                          [user_id |-> data.user_id,
                           channel |-> ChannelRef(get_channel(Self, channel_id)),
                           data |-> data, channel_id |-> channel_id],
                          DictHas(_voice_states, data.user_id), r.ret, r.raised)
        /\ snapshot' = None
        /\ UNCHANGED chan_log

\* GUILD_ROLE_CREATE / GUILD_ROLE_UPDATE
AddRole(data) ==
    /\ Becomes(_add_role(Self, Role(data)))
    /\ last' = Called("_add_role", data.id, DictHas(_roles, data.id), None, NoError)
    /\ snapshot' = None
    /\ UNCHANGED chan_log

\* GUILD_ROLE_DELETE
RemoveRole(role_id) ==
    LET r == _remove_role(Self, role_id)
    IN  /\ Becomes(r.self)
        /\ last' = Called("_remove_role", role_id, DictHas(_roles, role_id),
                          r.ret, r.raised)
        /\ snapshot' = None
        /\ UNCHANGED chan_log

-----------------------------------------------------------------------------
(* The channel, thread and member stores under their events *)

ConnectionState == [member_cache_flags |-> [joined |-> TRUE, voice |-> TRUE],
                    self_id |-> 20, member_updates |-> TRUE]

EveryoneRole == [id |-> 1, position |-> 0]

Category10 == [id |-> 10, type |-> "category", position |-> 0, parent_id |-> None]

Text11 == [id |-> 11, type |-> "text", position |-> 0, parent_id |-> Some(10)]

ChannelLists ==
    {<<>>,
     <<Category10, Text11>>,
     <<Text11, [Text11 EXCEPT !.position = 1]>>,
     <<[Category10 EXCEPT !.type = "unknown"], Text11>>}

ThreadLists ==
    {<<>>,
     <<[id |-> 30, parent_id |-> 11]>>,
     <<[id |-> 30, parent_id |-> 10], [id |-> 31, parent_id |-> 10]>>}

ChannelSnapshots ==
    {Snapshot(1, <<EveryoneRole>>, cs, <<>>, <<>>, <<>>, <<>>) : cs \in ChannelLists}

InitChannels == \E data \in ChannelSnapshots : InitFrom(data, ConnectionState)

NextChannels ==
    \/ \E data \in ChannelData({"text", "category"}, Positions) : AddChannel(data)
    \/ \E channel_id \in ChannelIds : RemoveChannel(channel_id)

SpecChannels == InitChannels /\ [][NextChannels]_vars

-----------------------------------------------------------------------------
(* The thread store under thread events and the two calls of a channel delete *)

ThreadSnapshots ==
    {Snapshot(1, <<EveryoneRole>>, cs, ts, <<>>, <<>>, <<>>) :
        cs \in ChannelLists, ts \in ThreadLists}

InitThreads == \E data \in ThreadSnapshots : InitFrom(data, ConnectionState)

NextThreads ==
    \/ \E data \in ChannelData({"text"}, {0}) :
          data.parent_id \in {None, Some(10)} /\ AddChannel(data)
    \/ \E channel_id \in ChannelIds : RemoveChannel(channel_id)
    \/ \E channel_id \in ChannelIds : RemoveThreadsByChannel(channel_id)
    \/ \E data \in ThreadData : AddThread(data)
    \/ \E thread_id \in ThreadIds : RemoveThread(thread_id)

SpecThreads == InitThreads /\ [][NextThreads]_vars

-----------------------------------------------------------------------------
(* The channel, thread and member stores under their add and remove events *)

StoreSnapshots ==
    {Snapshot(1, <<EveryoneRole>>, cs, ts, <<>>, ms, <<>>) :
        cs \in {<<>>, <<Category10, Text11>>},
        ts \in {<<>>, <<[id |-> 30, parent_id |-> 10]>>},
        ms \in {<<>>, <<[user_id |-> 20, presence |-> Some("presence")]>>}}

InitStores == \E data \in StoreSnapshots : InitFrom(data, ConnectionState)

NextStores ==
    \/ \E data \in ChannelData({"text"}, {0}) :
          data.parent_id = None /\ AddChannel(data)
    \/ \E channel_id \in ChannelIds : RemoveChannel(channel_id)
    \/ \E data \in ThreadData : data.parent_id = 10 /\ AddThread(data)
    \/ \E thread_id \in ThreadIds : RemoveThread(thread_id)
    \/ \E data \in MemberData : AddMember(data)
    \/ \E user_id \in UserIds : RemoveMember(user_id)

SpecStores == InitStores /\ [][NextStores]_vars

-----------------------------------------------------------------------------
(* Properties of the channel, thread and member stores *)

\* C1: after any sequence of channel create/update and delete events the channel
\* store holds, for every id, exactly the entity of the id's last create/update
\* event, nothing for an id whose last event was a delete, and no id twice.
C1_ChannelStoreNetEffect ==
    /\ \A c \in ChannelIds : DictGet(_channels, c) = chan_log[c]
    /\ DictKeys(_channels) \subseteq ChannelIds
    /\ Cardinality(DictKeys(_channels)) = Len(_channels)

\* A create for an id already present has replaced an entity with a different one
C1_Witness ==
    /\ last.op = "_add_channel"
    /\ last.hit
    /\ Len(_channels) = 1
    /\ \E c \in ChannelIds : chan_log[c] = None

ParentIs(channel_id, thread) == thread.parent_id = channel_id

\* C2: _remove_threads_by_channel(c) removes exactly the threads whose parent_id
\* is c, returns exactly those, and changes neither the other threads nor any
\* other store.
C2_CascadeExact ==
    [][last'.op = "_remove_threads_by_channel" =>
          LET OfChannel(t) == ParentIs(last'.arg, t)
              Other(t) == ~ParentIs(last'.arg, t)
          IN  /\ DictValues(_threads') = SelectSeq(DictValues(_threads), Other)
              /\ last'.ret = SelectSeq(DictValues(_threads), OfChannel)
              /\ last'.raised = NoError
              /\ UNCHANGED <<id, _roles, _channels, _voice_states, _members,
                             _presences>>]_vars

\* The threads of a deleted category were removed and returned while a thread of
\* one of the category's child channels stayed
C2_Witness ==
    /\ last.op = "_remove_threads_by_channel"
    /\ ~DictHas(_channels, last.arg)
    /\ last.ret # <<>>
    /\ \E i \in DOMAIN _threads : \E j \in DOMAIN _channels :
          /\ _threads[i][2].parent_id = _channels[j][1]
          /\ _channels[j][2].category_id = Some(last.arg)

OrphanedThreads(channel_id) ==
    {i \in DOMAIN _threads : _threads[i][2].parent_id = channel_id}

\* C3 as stated: no state has a channel removed by a delete while threads of that
\* channel are still in the thread store.
C3_NoOrphanObservable ==
    (last.op = "_remove_channel" /\ last.hit) => OrphanedThreads(last.arg) = {}

\* C3 amended: _remove_channel leaves the thread store as it is; the threads of
\* the channel are gone once _remove_threads_by_channel has run for it.
C3_CascadeIsSeparateCall ==
    [][/\ last'.op = "_remove_channel" => _threads' = _threads
       /\ last'.op = "_remove_threads_by_channel" =>
              {i \in DOMAIN _threads' : _threads'[i][2].parent_id = last'.arg} = {}
      ]_vars

\* The cascade ran for a deleted channel that had threads, and other threads stay
C3_Witness ==
    /\ last.op = "_remove_threads_by_channel"
    /\ last.hit = FALSE
    /\ Len(last.ret) = 2

\* C10: removing an absent id from the channel, member or thread store raises
\* nothing and leaves the store unchanged, and a second remove of the same id
\* right after the first changes nothing.
C10_RemoveAbsentIsNoOp ==
    [][/\ last'.op \in {"_remove_channel", "_remove_member", "_remove_thread"} =>
              last'.raised = NoError
       /\ (last'.op = "_remove_channel" /\ ~last'.hit) => _channels' = _channels
       /\ (last'.op = "_remove_member" /\ ~last'.hit) => _members' = _members
       /\ (last'.op = "_remove_thread" /\ ~last'.hit) => _threads' = _threads
       /\ (last'.op = last.op /\ last'.arg = last.arg
             /\ last.op \in {"_remove_channel", "_remove_member", "_remove_thread"}) =>
              /\ ~last'.hit
              /\ UNCHANGED <<_channels, _members, _threads>>
      ]_vars

\* A thread was removed twice in a row while another thread is in the store
C10_Witness ==
    /\ last.op = "_remove_thread"
    /\ ~last.hit
    /\ _threads # <<>>
    /\ _channels # <<>>
    /\ _members # <<>>

-----------------------------------------------------------------------------
(* The voice-state store under voice-state updates and channel events *)

Voice10 == [id |-> 10, type |-> "voice", position |-> 0, parent_id |-> None]

VoiceChannelLists ==
    {<<>>,
     <<Voice10, [Voice10 EXCEPT !.id = 11]>>,
     <<Voice10, [Voice10 EXCEPT !.id = 11, !.type = "unknown"]>>}

SnapshotVoiceState(user_id, channel_id) ==
    [user_id |-> user_id, channel_id |-> channel_id, self_mute |-> FALSE,
     member |-> None]

VoiceStateLists ==
    {<<>>, <<SnapshotVoiceState(20, 10)>>,
     <<SnapshotVoiceState(20, 10), SnapshotVoiceState(21, 10)>>}

MemberLists ==
    {<<>>, <<[user_id |-> 20, presence |-> None], [user_id |-> 21, presence |-> None]>>}

\* The voice states of a snapshot are in channels the snapshot lists
VoiceSnapshots ==
    {s \in {Snapshot(1, <<EveryoneRole>>, cs, <<>>, vss, ms, <<>>) :
               cs \in VoiceChannelLists, vss \in VoiceStateLists, ms \in MemberLists} :
        \A i \in DOMAIN s.voice_states :
            SnapshotChannel(s.channels, s.voice_states[i].channel_id) # None}

VoiceConnectionStates ==
    [member_cache_flags : [joined : {FALSE}, voice : BOOLEAN], self_id : {20},
     member_updates : {TRUE}]

InitVoice ==
    \E data \in VoiceSnapshots : \E state \in VoiceConnectionStates :
        InitFrom(data, state)

NextVoice ==
    \/ \E data \in VoiceData({FALSE}, {20}) :
          \E channel_id \in {None} \cup {Some(c) : c \in ChannelIds} :
              UpdateVoiceState(data, channel_id)
    \/ \E data \in ChannelData({"voice"}, {0}) :
          data.id = 10 /\ data.parent_id = None /\ AddChannel(data)
    \/ \E channel_id \in ChannelIds : RemoveChannel(channel_id)

SpecVoice == InitVoice /\ [][NextVoice]_vars

\* C4: a voice-state update whose resolved channel is None, for a user with no
\* entry in the voice-state store, leaves the store without an entry for the user
\* and of the same size.
C4_NullUpdateUnknownUserNoOp ==
    [][(/\ last'.op = "_update_voice_state"
        /\ last'.arg.channel = None
        /\ ~last'.hit) =>
           /\ Len(_voice_states') = Len(_voice_states)
           /\ ~DictHas(_voice_states', last'.arg.user_id)]_vars

\* C5: no entry of the voice-state store has a None channel
C5_NoNullChannelEntry ==
    \A i \in DOMAIN _voice_states : _voice_states[i][2].channel # None

\* C6: a voice-state update whose resolved channel is None, for a user who has an
\* entry, removes that entry and no other; _voice_state_for(user) is then None.
C6_NullUpdateRemovesEntry ==
    [][(/\ last'.op = "_update_voice_state"
        /\ last'.arg.channel = None
        /\ last'.hit) =>
           LET Others(e) == e[1] # last'.arg.user_id
           IN  /\ _voice_states' = SelectSeq(_voice_states, Others)
               /\ Len(_voice_states') = Len(_voice_states) - 1
               /\ _voice_state_for([_voice_states |-> _voice_states'],
                                   last'.arg.user_id) = None]_vars

\* The entry of one user was removed while the entry of another user stays
C6_Witness ==
    /\ last.op = "_update_voice_state"
    /\ last.arg.channel = None
    /\ last.hit
    /\ _voice_states # <<>>

\* C18: a voice-state update with a channel, for a user who has an entry, returns
\* as 'before' the entry as it was before the call and as 'after' the entry of the
\* store, updated from the payload; the keys of the store and the entries of the
\* other users are unchanged.
C18_UpdateInPlace ==
    [][(/\ last'.op = "_update_voice_state"
        /\ last'.arg.channel # None
        /\ last'.hit) =>
           LET user_id == last'.arg.user_id
           IN  /\ last'.ret.before = DictGet(_voice_states, user_id)[1]
               /\ last'.ret.after = DictGet(_voice_states', user_id)[1]
               /\ last'.ret.after.channel = last'.arg.channel
               /\ last'.ret.after.self_mute = last'.arg.data.self_mute
               /\ [i \in DOMAIN _voice_states' |-> _voice_states'[i][1]] =
                      [i \in DOMAIN _voice_states |-> _voice_states[i][1]]
               /\ \A u \in UserIds \ {user_id} :
                      DictGet(_voice_states', u) = DictGet(_voice_states, u)]_vars

\* A user with an entry has moved from one channel to another
C18_Witness ==
    /\ last.op = "_update_voice_state"
    /\ last.hit
    /\ last.arg.channel # None
    /\ last.ret.before.channel # None
    /\ last.ret.before.channel # last.ret.after.channel
    /\ Len(_voice_states) = 2

\* C19: a voice-state update with a channel, for a user who has no entry, returns
\* a 'before' with no channel and an 'after' with the channel resolved, and
\* inserts 'after' under the user id: the store grows by that one entry.
C19_InsertOnFirstUpdate ==
    [][(/\ last'.op = "_update_voice_state"
        /\ last'.arg.channel # None
        /\ ~last'.hit) =>
           /\ last'.ret.before.channel = None
           /\ last'.ret.after.channel = last'.arg.channel
           /\ _voice_states' =
                  Append(_voice_states, <<last'.arg.user_id, last'.ret.after>>)
           /\ Len(_voice_states') = Len(_voice_states) + 1]_vars

\* A second user has joined a channel
C19_Witness ==
    /\ last.op = "_update_voice_state"
    /\ ~last.hit
    /\ last.arg.channel # None
    /\ Len(_voice_states) = 2
    /\ _voice_states[2] = <<last.arg.user_id, last.ret.after>>

\* C20: in every branch of the voice-state update a member is added for the user
\* exactly when none is cached, the payload embeds member data and
\* cache_flags.voice is set; otherwise the member store is unchanged.
C20_VoiceMemberCaching ==
    [][last'.op = "_update_voice_state" =>
           LET user_id == last'.arg.user_id
               data == last'.arg.data
           IN  IF /\ ~DictHas(_members, user_id)
                  /\ data.member # None
                  /\ member_cache_flags.voice
               THEN _members' = Append(_members, <<user_id, Member(data.member[1])>>)
               ELSE _members' = _members]_vars

\* With the voice flag set, an update that removes the entry of a user has
\* embedded member data, and the user is now the one cached member
C20_Witness ==
    /\ last.op = "_update_voice_state"
    /\ last.arg.channel = None
    /\ last.hit
    /\ last.arg.data.member # None
    /\ member_cache_flags.voice
    /\ last.ret.member # None
    /\ DictKeys(_members) = {last.arg.user_id}

-----------------------------------------------------------------------------
(* The role store under role events *)

Role5 == [id |-> 5, position |-> 1]

Role9 == [id |-> 9, position |-> 1]

\* Every role list of up to MaxRoles entries, ids repeated or not
RoleLists == UNION {[1 .. n -> RoleData] : n \in 0 .. MaxRoles}

RoleSnapshots ==
    {Snapshot(1, rs, <<>>, <<>>, <<>>, <<>>, <<>>) : rs \in RoleLists}
        \cup {UnavailableData(1)}

InitRoles == \E data \in RoleSnapshots : InitFrom(data, ConnectionState)

NextRoles ==
    \/ \E data \in RoleData : AddRole(data)
    \/ \E role_id \in RoleIds : RemoveRole(role_id)

SpecRoles == InitRoles /\ [][NextRoles]_vars

\* The roles a snapshot lists: for each id, the last entry of the list with it
SnapshotRoles(rs) ==
    LET IsLast(i) == \A j \in DOMAIN rs : rs[j].id = rs[i].id => j <= i
    IN  {Role(rs[i]) : i \in {i \in DOMAIN rs : IsLast(i)}}

C8_DefaultRolePresent ==
    /\ default_role(Self) # None
    /\ Cardinality({i \in DOMAIN _roles : _roles[i][2].id = id}) = 1

\* C9 as stated: removing a role id that is not in the role store raises nothing
\* and leaves the store unchanged.
C9_RemoveAbsentRoleSilent ==
    (last.op = "_remove_role" /\ ~last.hit) => last.raised = NoError

\* C9 amended: removing a role id that is not in the role store leaves the store
\* unchanged and raises KeyError to the caller.
C9_RemoveAbsentRoleRaisesKeyError ==
    [][(last'.op = "_remove_role" /\ ~last'.hit) =>
           /\ _roles' = _roles
           /\ last'.raised = "KeyError"
           /\ last'.ret = None]_vars

\* A role id that is not in a non-empty role store was removed
C9_Witness ==
    /\ last.op = "_remove_role"
    /\ ~last.hit
    /\ last.raised = "KeyError"
    /\ _roles # <<>>

-----------------------------------------------------------------------------
(* utils.SnowflakeList: an array of unsigned 64-bit ids, searched by         *)
(* bisection.  The array is a sequence; Python's index i is position i + 1.  *)

NumSnowflakes == 3
MaxArrayLen == 4

SnowflakeIds == 1 .. NumSnowflakes

\* sorted(data) for integers
RECURSIVE InsertInt(_, _)
InsertInt(xs, x) ==
    IF xs = <<>> THEN <<x>>
    ELSE IF x < Head(xs) THEN <<x>> \o xs
         ELSE <<Head(xs)>> \o InsertInt(Tail(xs), x)

RECURSIVE SortedInts(_)
SortedInts(xs) ==
    IF xs = <<>> THEN <<>>
    ELSE InsertInt(SortedInts(SubSeq(xs, 1, Len(xs) - 1)), xs[Len(xs)])

\* bisect.bisect_left(a, x): the loop over lo and hi
RECURSIVE bisect_left_loop(_, _, _, _)
bisect_left_loop(a, x, lo, hi) ==
    IF lo < hi
    THEN LET mid == (lo + hi) \div 2
         IN  IF a[mid + 1] < x
             THEN bisect_left_loop(a, x, mid + 1, hi)
             ELSE bisect_left_loop(a, x, lo, mid)
    ELSE lo

bisect_left(a, x) == bisect_left_loop(a, x, 0, Len(a))

\* array.insert(i, element)
array_insert(a, i, element) ==
    SubSeq(a, 1, i) \o <<element>> \o SubSeq(a, i + 1, Len(a))

\* A constructor that trusts the data to be in order whatever is_sorted says
SnowflakeList__new__trusting(data, is_sorted) == data

\* SnowflakeList(data, is_sorted=): empty data gives the empty array
SnowflakeList__new__(data, is_sorted) ==
    IF data # <<>>
    THEN (IF is_sorted THEN data ELSE SortedInts(data))
    ELSE <<>>

SnowflakeList_add(self, element) ==
    LET i == bisect_left(self, element)
    IN  array_insert(self, i, element)

SnowflakeList_has(self, element) ==
    LET i == bisect_left(self, element)
    IN  i # Len(self) /\ self[i + 1] = element

SnowflakeList__contains__(self, element) == SnowflakeList_has(self, element)

\* The data a list is created from: any ids in any order, repeated or not
SnowflakeData == UNION {[1 .. n -> SnowflakeIds] : n \in 0 .. (MaxArrayLen - 1)}

IsAscending(a) == \A i \in 1 .. (Len(a) - 1) : a[i] <= a[i + 1]

GuildUntouched ==
    UNCHANGED <<id, _roles, _channels, _threads, _voice_states, _members,
                _presences, member_cache_flags, self_id, snapshot, chan_log,
                _member_count, _large, _premium_tier, features,
                premium_subscription_count, member_updates, requests, deleted,
                expiring>>

\* SnowflakeList(data, is_sorted=is_sorted); is_sorted is passed with data in order
NewSnowflakeList(data, is_sorted) ==
    /\ Constructed(Guild(UnavailableData(1), ConnectionState))
    /\ snapshot = None
    /\ chan_log = [c \in ChannelIds |-> None]
    /\ proxy = None
    /\ proxy_reads = NoReads
    /\ requests = NoRequests
    /\ deleted = NoneDeleted
    /\ expiring = NoString
    /\ snowflakes = SnowflakeList__new__(data, is_sorted)
    /\ snowflake_ids = {data[i] : i \in DOMAIN data}
    /\ last = Called("SnowflakeList", data, is_sorted, None, NoError)

\* list.add(element); hit tells whether the element was in the list before
SnowflakeAdd(element) ==
    /\ Len(snowflakes) < MaxArrayLen
    /\ snowflakes' = SnowflakeList_add(snowflakes, element)
    /\ snowflake_ids' = snowflake_ids \cup {element}
    /\ last' = Called("SnowflakeList.add", element,
                      SnowflakeList_has(snowflakes, element), None, NoError)
    /\ UNCHANGED <<proxy, proxy_reads>>
    /\ GuildUntouched

\* element in list
SnowflakeContains(element) ==
    /\ last' = Called("SnowflakeList.__contains__", element,
                      SnowflakeList_has(snowflakes, element),
                      Some(SnowflakeList__contains__(snowflakes, element)), NoError)
    /\ UNCHANGED <<snowflakes, snowflake_ids, proxy, proxy_reads>>
    /\ GuildUntouched

InitSnowflakes ==
    \E data \in SnowflakeData : \E is_sorted \in BOOLEAN :
        /\ is_sorted => IsAscending(data)
        /\ NewSnowflakeList(data, is_sorted)

NextSnowflakes ==
    \/ \E element \in SnowflakeIds : SnowflakeAdd(element)
    \/ \E element \in SnowflakeIds : SnowflakeContains(element)

SpecSnowflakes == InitSnowflakes /\ [][NextSnowflakes]_vars

\* C11: a SnowflakeList created from any data and grown by add is always in
\* ascending order (equal neighbours allowed), has(x) and x in list are true
\* exactly for the ids of the data and the ids added, and an add puts its element
\* into the array without moving the elements that were there.
C11_SortedAndMembership ==
    /\ [](/\ IsAscending(snowflakes)
          /\ \A x \in SnowflakeIds :
                /\ SnowflakeList_has(snowflakes, x) <=> x \in snowflake_ids
                /\ SnowflakeList__contains__(snowflakes, x) <=> x \in snowflake_ids)
    /\ [][last'.op = "SnowflakeList.add" =>
             /\ SnowflakeList_has(snowflakes', last'.arg)
             /\ \E i \in DOMAIN snowflakes' :
                   /\ snowflakes'[i] = last'.arg
                   /\ snowflakes = SubSeq(snowflakes', 1, i - 1)
                                     \o SubSeq(snowflakes', i + 1, Len(snowflakes'))
         ]_vars

\* A new id was added between two different ids of the list
C11_Witness ==
    /\ last.op = "SnowflakeList.add"
    /\ ~last.hit
    /\ \E i \in DOMAIN snowflakes :
          /\ 1 < i
          /\ i < Len(snowflakes)
          /\ snowflakes[i] = last.arg
          /\ snowflakes[i - 1] < last.arg
          /\ last.arg < snowflakes[i + 1]

\* C12: add(x) for an x the list contains leaves the array as it is, so its size
\* is unchanged and no add puts an id into the list a second time.
C12_AddIdempotent ==
    [][(last'.op = "SnowflakeList.add" /\ last'.hit) =>
           /\ snowflakes' = snowflakes
           /\ Len(snowflakes') = Len(snowflakes)]_vars

-----------------------------------------------------------------------------
(* utils.SequenceProxy over the guild's stores.  __proxied is the collection *)
(* the proxy holds: the live values() view of a store, <<"view", store>>, or *)
(* the list that __copied has put in its place, <<"list", elements>>.        *)

SequenceProxy(proxied, sorted) == [__proxied |-> proxied, __sorted |-> sorted]

\* self._channels.values() and the like: a view, not a copy
ValuesView(store) == <<"view", store>>

ListingStores == {"_channels", "_threads", "_members", "_roles"}

\* Guild.channels, Guild.threads, Guild.members, Guild.roles: a new proxy at
\* every access; only the roles are listed sorted
Listing(store) == SequenceProxy(ValuesView(store), store = "_roles")

StoreOf(self, store) ==
    CASE store = "_channels" -> self._channels
      [] store = "_threads" -> self._threads
      [] store = "_members" -> self._members
      [] store = "_roles" -> self._roles

\* The elements of the collection self.__proxied refers to, the guild being self
Proxied(self, p) ==
    IF p.__proxied[1] = "list" THEN p.__proxied[2]
    ELSE DictValues(StoreOf(self, p.__proxied[2]))

\* A property that computes the list and does not keep it in the proxy
_cached_property__get__uncached(self, p) ==
    [instance |-> p,
     value |-> SequenceProxy__copied(Proxied(self, p), p.__sorted)]

\* A read of self.__copied: _cached_property.__get__ calls the function each
\* time (setattr stores the value under the unmangled name '__copied', which no
\* read looks up), and the function assigns the list it builds to __proxied
_cached_property__get__(self, p) ==
    LET value == SequenceProxy__copied(Proxied(self, p), p.__sorted)
    IN  [instance |-> [p EXCEPT !.__proxied = <<"list", value>>], value |-> value]

\* A len that asks the store the proxy was made for, whatever the proxy holds
SequenceProxy__len__of_store(self, p) == Len(StoreOf(self, proxy_reads.store[1]))

SequenceProxy__len__(self, p) == Len(Proxied(self, p))

SequenceProxy__iter__(self, p) == _cached_property__get__(self, p)

\* A guild that hands out the proxy it made before, if it made one for the store
GetListing_memoised(store) ==
    /\ IF proxy_reads.store = Some(store)
       THEN UNCHANGED <<proxy, proxy_reads>>
       ELSE proxy' = Some(Listing(store)) /\ proxy_reads' = NewReads(store)
    /\ last' = Called("SequenceProxy", store, proxy # None, proxy_reads.list, NoError)
    /\ UNCHANGED <<snowflakes, snowflake_ids>>
    /\ GuildUntouched

\* guild.channels and the like; ret is the sequence the caller's previous proxy
\* had materialised, if any
GetListing(store) ==
    /\ proxy' = Some(Listing(store))
    /\ proxy_reads' = NewReads(store)
    /\ last' = Called("SequenceProxy", store, proxy # None, proxy_reads.list, NoError)
    /\ UNCHANGED <<snowflakes, snowflake_ids>>
    /\ GuildUntouched

\* len(proxy); hit tells whether the proxy had served a materialising read
ReadLen ==
    /\ proxy # None
    /\ LET n == SequenceProxy__len__(Self, proxy[1])
       IN  /\ last' = Called("SequenceProxy.__len__", None,
                             proxy_reads.list # None, Some(n), NoError)
           /\ proxy_reads' = [proxy_reads EXCEPT
                                 !.len = IF @ = None THEN Some(n) ELSE @]
    /\ UNCHANGED <<proxy, snowflakes, snowflake_ids>>
    /\ GuildUntouched

\* list(proxy), a materialising read
ReadIter ==
    /\ proxy # None
    /\ LET r == SequenceProxy__iter__(Self, proxy[1])
       IN  /\ proxy' = Some(r.instance)
           /\ last' = Called("SequenceProxy.__iter__", None,
                             proxy_reads.list # None, r.value, NoError)
           /\ proxy_reads' =
                  [store |-> proxy_reads.store,
                   len  |-> IF proxy_reads.len = None
                            THEN Some(Len(r.value)) ELSE proxy_reads.len,
                   list |-> IF proxy_reads.list = None
                            THEN Some(r.value) ELSE proxy_reads.list]
    /\ UNCHANGED <<snowflakes, snowflake_ids>>
    /\ GuildUntouched

ListingSnapshots ==
    {Snapshot(1, <<EveryoneRole, Role9>>, cs, <<>>, <<>>, <<>>, <<>>) :
        cs \in {<<>>, <<Text11>>}}

InitListings == \E data \in ListingSnapshots : InitFrom(data, ConnectionState)

NextListings ==
    \/ \E store \in ListingStores : GetListing(store)
    \/ ReadLen
    \/ ReadIter
    \/ \E data \in ChannelData({"text"}, {0}) :
          data.id = 10 /\ data.parent_id = None /\ AddChannel(data)
    \/ \E channel_id \in {10, 11} : RemoveChannel(channel_id)
    \/ \E data \in {Role5, [Role5 EXCEPT !.position = 0]} : AddRole(data)
    \/ RemoveRole(5)
    \/ AddThread([id |-> 30, parent_id |-> 10])
    \/ RemoveThread(30)
    \/ AddMember([user_id |-> 20, presence |-> None])
    \/ RemoveMember(20)

SpecListings == InitListings /\ [][NextListings]_vars

\* The sequence is a listing of the store as it is now: the store's values, each
\* once, in dict order, or in ascending (position, id) order for the roles
IsListingOf(listed, store) ==
    LET values == DictValues(StoreOf(Self, store))
    IN  IF store = "_roles"
        THEN /\ Len(listed) = Len(values)
             /\ {listed[i] : i \in DOMAIN listed} = {values[i] : i \in DOMAIN values}
             /\ \A i, j \in DOMAIN listed :
                   i < j => \/ listed[i].position < listed[j].position
                            \/ /\ listed[i].position = listed[j].position
                               /\ listed[i].id < listed[j].id
        ELSE listed = values

\* What a read returned, as a length
ReadLength(call) ==
    IF call.op = "SequenceProxy.__len__" THEN call.ret[1] ELSE Len(call.ret)

ProxyReads == {"SequenceProxy.__len__", "SequenceProxy.__iter__"}

\* C13 as stated: the class has no invalidate(), so every read of one proxy
\* returns the sequence, and the length, that its first read returned.
C13_StableUntilInvalidated ==
    [][(last'.op \in ProxyReads /\ proxy_reads.len # None) =>
           /\ ReadLength(last') = proxy_reads.len[1]
           /\ (last'.op = "SequenceProxy.__iter__" /\ proxy_reads.list # None) =>
                  last'.ret = proxy_reads.list[1]]_vars

\* C13 amended: until its first materialising read a proxy shows the store as it
\* is at each read; from that read on every read, len included, returns the
\* sequence that read gave, whatever is done to the store.
C13_StableOnceMaterialised ==
    [][last'.op \in ProxyReads =>
           IF proxy_reads.list = None
           THEN /\ ReadLength(last') = Len(StoreOf(Self, proxy_reads.store[1]))
                /\ last'.op = "SequenceProxy.__iter__" =>
                       IsListingOf(last'.ret, proxy_reads.store[1])
           ELSE /\ ReadLength(last') = Len(proxy_reads.list[1])
                /\ last'.op = "SequenceProxy.__iter__" =>
                       last'.ret = proxy_reads.list[1]]_vars

\* A proxy whose len was read, then the store changed, then it was materialised,
\* then the store changed again, is read again: it returns what it materialised
C13_Witness ==
    /\ last.op = "SequenceProxy.__iter__"
    /\ last.hit
    /\ proxy_reads.len # Some(Len(last.ret))
    /\ ~IsListingOf(last.ret, proxy_reads.store[1])

\* The sequence is in the order sorted() gives the roles
InRoleOrder(listed) ==
    \A i, j \in DOMAIN listed : i < j => ~Role_lt(listed[j], listed[i])

\* C35: from the first materialising read of a proxy on, every read of that
\* proxy, len included, returns the contents of that first read, whatever has
\* been added to or removed from the store since; what a sorted proxy returns
\* is in sorted order.
C35_FrozenAfterFirstRead ==
    [][(last'.op \in ProxyReads /\ proxy_reads.list # None) =>
           /\ proxy_reads' = proxy_reads
           /\ ReadLength(last') = Len(proxy_reads.list[1])
           /\ last'.op = "SequenceProxy.__iter__" =>
                  /\ last'.ret = proxy_reads.list[1]
                  /\ proxy[1].__sorted => InRoleOrder(last'.ret)]_vars

\* The roles were listed and read, then a role was added to the store; len of
\* the proxy still gives the number of roles it read
C35_Witness ==
    /\ last.op = "SequenceProxy.__len__"
    /\ last.hit
    /\ proxy_reads.store = Some("_roles")
    /\ last.ret = Some(Len(proxy_reads.list[1]))
    /\ Len(proxy_reads.list[1]) < Len(_roles)

\* C36: in every state, before and after its first materialising read and
\* whatever was done to the store between reads, len(proxy) is the number of
\* elements that iterating the proxy in that state yields.
C36_LenIsIterCount ==
    proxy # None =>
        SequenceProxy__len__(Self, proxy[1]) =
            Len(SequenceProxy__iter__(Self, proxy[1]).value)

\* Before any materialising read, len is read a second time after the store has
\* changed: it differs from the first len, and iterating now yields as many
C36_Witness ==
    /\ last.op = "SequenceProxy.__len__"
    /\ ~last.hit
    /\ proxy_reads.len # last.ret
    /\ Len(SequenceProxy__iter__(Self, proxy[1]).value) = last.ret[1]

\* C14: a listing obtained from the guild, after any adds and removes, contains
\* exactly the current values of its store, and keeps showing the store as it is
\* until it is first read.
C14_ListingIsCurrent ==
    (proxy # None /\ (last.op = "SequenceProxy" \/ proxy_reads.list = None)) =>
        LET p == proxy[1]
            store == proxy_reads.store[1]
        IN  /\ IsListingOf(SequenceProxy__iter__(Self, p).value, store)
            /\ SequenceProxy__len__(Self, p) = Len(StoreOf(Self, store))

\* After events were applied a caller that held a materialised listing asks for
\* a new one, and the old one no longer lists the store
C14_Witness ==
    /\ last.op = "SequenceProxy"
    /\ last.arg = "_roles"
    /\ last.ret # None
    /\ snapshot = None
    /\ ~IsListingOf(last.ret[1], last.arg)
    /\ Len(last.ret[1]) = Len(_roles)

-----------------------------------------------------------------------------
(* Guild.__init__ on partial and malformed payloads *)

FullSnapshot ==
    Snapshot(1, <<EveryoneRole>>,
             <<Voice10, [Text11 EXCEPT !.parent_id = None]>>,
             <<[id |-> 30, parent_id |-> 11]>>,
             <<SnapshotVoiceState(20, 10)>>,
             <<[user_id |-> 20, presence |-> None]>>,
             <<20>>)

\* The payload with only the given keys
Restrict(payload, keys) == [k \in keys |-> payload[k]]

\* Payloads that lack any of the top-level fields, the id among them
PartialSnapshots ==
    {Restrict(FullSnapshot, keys) : keys \in SUBSET (DOMAIN FullSnapshot)}

\* Payloads with one item of a list malformed: a channel without 'type', a voice
\* state without 'channel_id'
MalformedSnapshots ==
    {[FullSnapshot EXCEPT !.channels =
          <<Voice10, Restrict(Text11, {"id", "position", "parent_id"})>>],
     [FullSnapshot EXCEPT !.voice_states =
          <<Restrict(SnapshotVoiceState(20, 10), {"user_id", "self_mute", "member"})>>]}

LoadSnapshots == PartialSnapshots \cup MalformedSnapshots

InitLoad == \E data \in LoadSnapshots : InitFrom(data, ConnectionState)

\* The caller holds the guild: __init__ returned instead of raising
Published == last.op # "__init__" \/ last.raised = NoError

NextLoad ==
    \/ /\ Published
       /\ \E data \in ChannelData({"text"}, {0}) :
             data.parent_id = None /\ AddChannel(data)
    \/ /\ Published
       /\ \E channel_id \in ChannelIds : RemoveChannel(channel_id)

SpecLoad == InitLoad /\ [][NextLoad]_vars

\* C15: Guild.__init__ raises exactly when the payload has no guild id, completes
\* for every other missing field or malformed list item, and hands no guild to
\* the caller when it raises.
C15_LoadRaisesOnlyWithoutId ==
    last.op = "__init__" =>
        /\ last.raised # NoError <=> ~HasKey(snapshot, "id")
        /\ last.raised # NoError => last.ret = None

-----------------------------------------------------------------------------
(* The member store and the presence store under member events *)

MemberSnapshots ==
    {Snapshot(1, <<EveryoneRole>>, <<>>, <<>>, <<>>, ms, ps) :
        ms \in {<<>>,
                <<[user_id |-> 20, presence |-> Some("presence")]>>,
                <<[user_id |-> 20, presence |-> None],
                  [user_id |-> 21, presence |-> Some("presence")]>>},
        ps \in {<<>>, <<21>>}}

MemberConnectionStates ==
    [member_cache_flags : [joined : BOOLEAN, voice : {FALSE}], self_id : {20},
     member_updates : {TRUE}]

InitMembers ==
    \E data \in MemberSnapshots : \E state \in MemberConnectionStates :
        InitFrom(data, state)

\* GUILD_MEMBER_ADD for a member entry that is in the store already
ReAddMember(user_id) ==
    /\ DictHas(_members, user_id)
    /\ Becomes(_add_member(Self, DictGet(_members, user_id)[1]))
    /\ last' = Called("_add_member", DictGet(_members, user_id)[1], TRUE,
                      None, NoError)
    /\ snapshot' = None
    /\ UNCHANGED chan_log

NextMembers ==
    \/ \E data \in MemberData : AddMember(data)
    \/ \E user_id \in UserIds : ReAddMember(user_id)
    \/ \E user_id \in UserIds : RemoveMember(user_id)

SpecMembers == InitMembers /\ [][NextMembers]_vars

\* C16: _remove_member takes the member out of the member store if it is there,
\* and evicts the user's presence whether or not the member was cached;
\* afterwards neither store holds the user.
C16_MemberLeftEvicts ==
    [][last'.op = "_remove_member" =>
           LET Others(e) == e[1] # last'.arg
           IN  /\ _members' = SelectSeq(_members, Others)
               /\ _presences' = _presences \ {last'.arg}
               /\ ~DictHas(_members', last'.arg)
               /\ last'.arg \notin _presences'
               /\ last'.raised = NoError]_vars

\* A user who was not cached as a member has left, with only presences of users
\* who are not cached either remaining
C16_Witness ==
    /\ last.op = "_remove_member"
    /\ ~last.hit
    /\ _members = <<>>
    /\ _presences # {}

\* C17: _add_member maps the member's id to the member, stores a staged presence
\* under the user and clears it from the entry, leaves the presence store as it
\* is for a member with no staged presence, and adding the entry that is in the
\* store again changes neither store.
C17_MemberAddHandsOffPresence ==
    [][last'.op = "_add_member" =>
           LET member == last'.arg
           IN  /\ DictGet(_members', member.id) =
                      Some([member EXCEPT !._presence = None])
               /\ \A u \in UserIds \ {member.id} :
                      DictGet(_members', u) = DictGet(_members, u)
               /\ _presences' = IF member._presence # None
                                THEN _presences \cup {member.id} ELSE _presences
               /\ DictGet(_members, member.id) = Some(member) =>
                      UNCHANGED <<_members, _presences>>]_vars

\* The entry of a member whose presence was handed over is added again
C17_Witness ==
    /\ last.op = "_add_member"
    /\ last.hit
    /\ last.arg._presence = None
    /\ last.arg.id \in _presences
    /\ member_cache_flags.joined = FALSE

-----------------------------------------------------------------------------
(* All the stores under the events of every type *)

EventSnapshots ==
    {Snapshot(1, rs, cs, ts, vss, <<>>, <<>>) :
        rs \in {<<EveryoneRole>>},
        cs \in {<<>>, <<Voice10, Text11>>},
        ts \in {<<>>, <<[id |-> 30, parent_id |-> 10]>>},
        vss \in {<<>>, <<SnapshotVoiceState(21, 10)>>}}

InitEvents ==
    \E data \in EventSnapshots : \E state \in VoiceConnectionStates :
        InitFrom(data, state)

NextEvents ==
    \/ AddChannel(Voice10)
    \/ \E channel_id \in ChannelIds : RemoveChannel(channel_id)
    \/ RemoveThreadsByChannel(10)
    \/ AddThread([id |-> 30, parent_id |-> 11])
    \/ RemoveThread(30)
    \/ AddRole([id |-> 5, position |-> 1])
    \/ RemoveRole(5)
    \/ \E data \in VoiceData({FALSE}, {20}) : \E channel_id \in {None, Some(10)} :
          data.user_id = 20 /\ UpdateVoiceState(data, channel_id)

SpecEvents == InitEvents /\ [][NextEvents]_vars

\* The stores an operation of the given name owns
OwnedStores(op) ==
    CASE op \in {"_add_channel", "_remove_channel"} -> {"channels"}
      [] op \in {"_add_thread", "_remove_thread", "_remove_threads_by_channel"} ->
             {"threads"}
      [] op \in {"_add_role", "_remove_role"} -> {"roles"}
      [] op = "_update_voice_state" -> {"voice_states"}
      [] OTHER -> {}

\* The stores whose content a step changes
StoresChanged ==
    {store \in {"channels", "threads", "roles", "members", "voice_states"} :
        CASE store = "channels" -> _channels' # _channels
          [] store = "threads" -> _threads' # _threads
          [] store = "roles" -> _roles' # _roles
          [] store = "members" -> _members' # _members
          [] store = "voice_states" -> _voice_states' # _voice_states}

\* C21: a channel, role, thread or voice-state operation changes no store but
\* its own; the cascade of a channel delete changes only the thread store, and
\* there only the threads of its channel.
C21_OneStorePerEvent ==
    [][/\ StoresChanged \subseteq OwnedStores(last'.op)
       /\ last'.op = "_remove_threads_by_channel" =>
              \A i \in DOMAIN _threads :
                  _threads[i][2].parent_id # last'.arg =>
                      DictGet(_threads', _threads[i][1]) = Some(_threads[i][2])]_vars

\* C21, amended: as C21, but a voice-state update may also add the member its
\* payload embeds, for a user who has no member entry, when cache_flags.voice
\* is set; it changes the member store in no other way.
C21_OneStorePerEventButVoiceMember ==
    [][/\ StoresChanged \ {"members"} \subseteq OwnedStores(last'.op)
       /\ _presences' = _presences
       /\ _members' # _members =>
              /\ last'.op = "_update_voice_state"
              /\ member_cache_flags.voice
              /\ ~DictHas(_members, last'.arg.user_id)
              /\ last'.arg.data.member # None
              /\ _members' = Append(_members,
                                    <<last'.arg.user_id,
                                      Member(last'.arg.data.member[1])>>)
       /\ last'.op = "_remove_threads_by_channel" =>
              \A i \in DOMAIN _threads :
                  _threads[i][2].parent_id # last'.arg =>
                      DictGet(_threads', _threads[i][1]) = Some(_threads[i][2])]_vars

\* A voice-state update has put its user in a channel and its embedded member in
\* the member store, next to a role and a thread that stayed
C21_Witness ==
    /\ last.op = "_update_voice_state"
    /\ last.arg.channel # None
    /\ last.arg.data.member # None
    /\ DictKeys(_members) = {last.arg.user_id}
    /\ DictHas(_roles, 5)
    /\ DictHas(_threads, 30)
    /\ DictHas(_voice_states, 21)

-----------------------------------------------------------------------------
(* The channel and role stores under the gateway's events and the API calls *)
(* of the guild that write to them.  An API call is a coroutine: it sends   *)
(* its request, awaits the response while gateway events are applied, and   *)
(* then runs to its end.                                                    *)

\* A gateway event handler has run: no API call is touched
Handled(self) ==
    /\ Assigned(self)
    /\ snapshot' = None
    /\ UNCHANGED <<snowflakes, snowflake_ids, proxy, proxy_reads, requests, expiring>>

\* CHANNEL_CREATE / CHANNEL_UPDATE from the event stream
ChannelCreateEvent(data) ==
    /\ Handled(_add_channel(Self, GuildChannel(data)))
    /\ last' = Called("_add_channel", data.id, DictHas(_channels, data.id),
                      None, NoError)
    /\ chan_log' = [chan_log EXCEPT ![data.id] = Some(GuildChannel(data))]
    /\ deleted' = [deleted EXCEPT !.channels = @ \ {data.id}]

\* CHANNEL_DELETE from the event stream
ChannelDeleteEvent(channel_id) ==
    LET r == _remove_channel(Self, channel_id)
    IN  /\ Handled(r.self)
        /\ last' = Called("_remove_channel", channel_id,
                          DictHas(_channels, channel_id), r.ret, r.raised)
        /\ chan_log' = [chan_log EXCEPT ![channel_id] = None]
        /\ deleted' = [deleted EXCEPT !.channels = @ \cup {channel_id}]

\* GUILD_ROLE_CREATE / GUILD_ROLE_UPDATE from the event stream
RoleCreateEvent(data) ==
    /\ Handled(_add_role(Self, Role(data)))
    /\ last' = Called("_add_role", data.id, DictHas(_roles, data.id), None, NoError)
    /\ deleted' = [deleted EXCEPT !.roles = @ \ {data.id}]
    /\ UNCHANGED chan_log

\* GUILD_ROLE_DELETE from the event stream
RoleDeleteEvent(role_id) ==
    LET r == _remove_role(Self, role_id)
    IN  /\ Handled(r.self)
        /\ last' = Called("_remove_role", role_id, DictHas(_roles, role_id),
                          r.ret, r.raised)
        /\ deleted' = [deleted EXCEPT !.roles = @ \cup {role_id}]
        /\ UNCHANGED chan_log

\* An API call has taken a step: no gateway event is applied
Awaited(self) ==
    /\ Assigned(self)
    /\ snapshot' = None
    /\ UNCHANGED <<snowflakes, snowflake_ids, proxy, proxy_reads, chan_log, deleted,
                   expiring>>

\* await guild.create_text_channel(...), up to the await: the request is sent,
\* the server creates a channel with an id of its own choice and answers with
\* the channel's payload
CreateTextChannel(data) ==
    /\ requests.create_text_channel = None
    /\ ~DictHas(_channels, data.id)
    /\ chan_log[data.id] = None
    /\ data.id \notin deleted.channels
    /\ Awaited(Self)
    /\ requests' = [requests EXCEPT !.create_text_channel = Some(data)]
    /\ last' = Called("create_text_channel", data.id, FALSE, None, NoError)

\* The response has arrived and create_text_channel runs to its return
CreateTextChannelReturns ==
    /\ requests.create_text_channel # None
    /\ LET data == requests.create_text_channel[1]
           r == create_text_channel(Self, data)
       IN  /\ Awaited(r.self)
           /\ last' = Called("create_text_channel", data.id,
                             DictHas(_channels, data.id), r.ret, r.raised)
    /\ requests' = [requests EXCEPT !.create_text_channel = None]

\* await guild.edit_role_positions({role: position}), up to the await: the
\* server moves the role and answers with the payloads of all its roles, which
\* are the roles of the store at this moment
EditRolePositions(role_id, position) ==
    /\ requests.edit_role_positions = None
    /\ DictHas(_roles, role_id)
    /\ Awaited(Self)
    /\ requests' =
           [requests EXCEPT !.edit_role_positions =
               Some([i \in DOMAIN _roles |->
                        [id |-> _roles[i][1],
                         position |-> IF _roles[i][1] = role_id THEN position
                                      ELSE _roles[i][2].position]])]
    /\ last' = Called("edit_role_positions", role_id, TRUE, None, NoError)

\* The response has arrived and edit_role_positions runs to its return
EditRolePositionsReturns ==
    /\ requests.edit_role_positions # None
    /\ LET data == requests.edit_role_positions[1]
           r == edit_role_positions(Self, data)
       IN  /\ Awaited(r.self)
           /\ last' = Called("edit_role_positions", None, FALSE, r.ret, r.raised)
    /\ requests' = [requests EXCEPT !.edit_role_positions = None]

RequestSnapshots ==
    {Snapshot(1, rs, cs, <<>>, <<>>, <<>>, <<>>) :
        rs \in {<<EveryoneRole>>, <<EveryoneRole, [id |-> 5, position |-> 1]>>},
        cs \in {<<>>, <<Category10>>}}

InitRequests == \E data \in RequestSnapshots : InitFrom(data, ConnectionState)

NextRequests ==
    \/ \E data \in ChannelData({"text"}, {0}) :
          data.parent_id = None /\ CreateTextChannel(data)
    \/ CreateTextChannelReturns
    \/ \E data \in ChannelData({"text"}, {0}) :
          data.parent_id = None /\ ChannelCreateEvent(data)
    \/ \E channel_id \in ChannelIds : ChannelDeleteEvent(channel_id)
    \/ \E position \in Positions : EditRolePositions(5, position)
    \/ EditRolePositionsReturns
    \/ \E position \in Positions : RoleCreateEvent([id |-> 5, position |-> position])
    \/ RoleDeleteEvent(5)

SpecRequests == InitRequests /\ [][NextRequests]_vars

\* C22: a channel (role) whose last applied event is a delete event is not in
\* the channel (role) store, whatever API call was awaiting its response when
\* the event was applied.
C22_DeletedStaysAbsent ==
    /\ \A channel_id \in deleted.channels : ~DictHas(_channels, channel_id)
    /\ \A role_id \in deleted.roles : ~DictHas(_roles, role_id)

-----------------------------------------------------------------------------
(* The member count, the 'large' flag and the member store *)

\* The member list of a snapshot with n members, of the users 20, 21, ...
MemberList(n) == [i \in 1 .. n |-> [user_id |-> 19 + i, presence |-> None]]

\* A snapshot with the keys 'member_count', 'large' and 'unavailable' present
\* or absent
CountSnapshots ==
    {Restrict([id |-> 1, member_count |-> member_count, large |-> is_large,
               unavailable |-> TRUE, members |-> MemberList(n)], keys) :
        member_count \in {1, large_threshold - 1, large_threshold},
        is_large \in BOOLEAN,
        n \in {0, 1},
        keys \in {{"id", "members"} \cup optional :
                     optional \in SUBSET {"member_count", "large", "unavailable"}}}

CountConnectionStates ==
    [member_cache_flags : [joined : {TRUE}, voice : {TRUE}], self_id : {20},
     member_updates : BOOLEAN]

InitCounts ==
    \E data \in CountSnapshots : \E state \in CountConnectionStates :
        InitFrom(data, state)

\* guild.large
Large ==
    /\ Becomes(Self)
    /\ last' = Called("large", None, _large # None, Some(large(Self)), NoError)
    /\ UNCHANGED <<snapshot, chan_log>>

\* guild.chunked
Chunked ==
    /\ Becomes(Self)
    /\ last' = Called("chunked", None, _member_count # None, Some(chunked(Self)),
                      NoError)
    /\ UNCHANGED <<snapshot, chan_log>>

\* GUILD_MEMBER_ADD for the next user: the users join in the order of their ids,
\* until the store has reached the threshold
NextMemberJoins ==
    LET n == Len(_members) + 1
    IN  /\ n <= large_threshold
        /\ AddMember(MemberList(n)[n])

\* GUILD_MEMBER_REMOVE for the user who joined last
LastMemberLeaves ==
    /\ _members # <<>>
    /\ RemoveMember(19 + Len(_members))

NextCounts ==
    \/ Large
    \/ Chunked
    \/ NextMemberJoins
    \/ LastMemberLeaves

SpecCounts == InitCounts /\ [][NextCounts]_vars

-----------------------------------------------------------------------------
(* Guild.__init__ on payloads with channels of unrecognised kinds *)

KindChannels ==
    {Voice10, [Voice10 EXCEPT !.type = "unknown"],
     [Text11 EXCEPT !.parent_id = None],
     [Text11 EXCEPT !.parent_id = None, !.type = "unknown"]}

\* Channel lists of up to two entries, of recognised and unrecognised kinds
KindSnapshots ==
    {[FullSnapshot EXCEPT !.channels = cs] :
        cs \in {<<>>} \cup {<<c>> : c \in KindChannels}
                      \cup {<<c, d>> : c \in KindChannels, d \in KindChannels}}

InitKinds == \E data \in KindSnapshots : InitFrom(data, ConnectionState)

NextKinds ==
    \/ \E data \in ChannelData({"text", "voice"}, Positions) :
          data.parent_id = None /\ AddChannel(data)
    \/ \E channel_id \in ChannelIds : RemoveChannel(channel_id)

SpecKinds == InitKinds /\ [][NextKinds]_vars

\* C25: a load whose channel list has entries of unrecognised kinds does not
\* raise; the channel store holds, for every id, the snapshot's last entry of a
\* recognised kind and nothing else, and the thread, voice-state, member and
\* presence steps have run on their lists.
C25_UnknownKindSkipped ==
    last.op = "__init__" =>
        /\ last.raised = NoError
        /\ \A c \in ChannelIds :
               DictGet(_channels, c) = SnapshotChannel(snapshot.channels, c)
        /\ DictKeys(_channels) \subseteq ChannelIds
        /\ \A i \in DOMAIN _channels : _channels[i][2].type \in ChannelTypes
        /\ DictKeys(_threads) = {snapshot.threads[i].id : i \in DOMAIN snapshot.threads}
        /\ DictKeys(_voice_states) =
               {snapshot.voice_states[i].user_id : i \in DOMAIN snapshot.voice_states}
        /\ DictKeys(_members) =
               {snapshot.members[i].user_id : i \in DOMAIN snapshot.members}
        /\ _presences = {snapshot.presences[i] : i \in DOMAIN snapshot.presences}

\* A load that has skipped an entry of an unrecognised kind, stored the entry
\* after it, and loaded a thread, a voice state, a member and a presence
C25_Witness ==
    /\ last.op = "__init__"
    /\ Len(snapshot.channels) = 2
    /\ snapshot.channels[1].type \notin ChannelTypes
    /\ DictKeys(_channels) = {snapshot.channels[2].id}
    /\ _threads # <<>>
    /\ _voice_states # <<>>
    /\ _members # <<>>
    /\ _presences # {}

-----------------------------------------------------------------------------
(* Guild.by_category over the channel store *)

\* The id of a category that is never in the store
AbsentCategoryId == 10 + NumChannels

\* Channel payloads whose parent is channel 10, a category that is not in the
\* store, or none; only channel 10 may be a category
CategoryChannelData ==
    {c \in [id : ChannelIds, type : ChannelTypes, position : Positions,
            parent_id : {None, Some(10), Some(AbsentCategoryId)}] :
        /\ c.type = "category" => (c.id = 10 /\ c.parent_id = None)
        /\ c.parent_id # Some(c.id)}

\* The server names only categories as parents: with the channel of the payload
\* in the store, no channel of the store has a parent that is in the store and
\* is no category
ParentsAreCategories(data) ==
    LET channels == DictValues(_add_channel(Self, GuildChannel(data))._channels)
    IN  \A i, j \in DOMAIN channels :
            channels[i].category_id = Some(channels[j].id) =>
                channels[j].type = "category"

CategorySnapshots ==
    {Snapshot(1, <<EveryoneRole>>, cs, <<>>, <<>>, <<>>, <<>>) :
        cs \in {<<>>, <<Category10, Text11>>}}

InitCategories == \E data \in CategorySnapshots : InitFrom(data, ConnectionState)

\* guild.by_category()
ByCategory(channel_lt) ==
    LET r == by_category(Self, channel_lt)
    IN  /\ Becomes(r.self)
        /\ last' = Called("by_category", None, FALSE, r.ret, r.raised)
        /\ UNCHANGED <<snapshot, chan_log>>

NextCategories ==
    \/ \E data \in CategoryChannelData :
          ParentsAreCategories(data) /\ AddChannel(data)
    \/ \E channel_id \in ChannelIds : RemoveChannel(channel_id)
    \/ \E channel_lt \in {"TypeError", "less", "not less"} : ByCategory(channel_lt)

SpecCategories == InitCategories /\ [][NextCategories]_vars

\* The channels of the store that are no categories
NonCategoryChannels ==
    {_channels[i][2] : i \in {j \in DOMAIN _channels : _channels[j][2].type # "category"}}

\* C26: by_category returns a group for every category of the store and at
\* most one group keyed None, which comes first; the categories follow in
\* ascending (position, id) order; the channels of a group are in ascending
\* (bucket, position, id) order; every non-category channel of the store is in
\* exactly one group, once.
C26_ByCategoryGroups ==
    last.op = "by_category" =>
        /\ last.raised = NoError
        /\ LET groups == last.ret
           IN  /\ \A i \in DOMAIN _channels :
                      _channels[i][2].type = "category" =>
                          Cardinality({g \in DOMAIN groups :
                                          groups[g][1] = Some(_channels[i][2])}) = 1
               /\ \A g \in DOMAIN groups :
                      groups[g][1] # None =>
                          /\ groups[g][1][1].type = "category"
                          /\ DictGet(_channels, groups[g][1][1].id) = groups[g][1]
               /\ \A g \in DOMAIN groups : groups[g][1] = None => g = 1
               /\ \A g, h \in DOMAIN groups :
                      (g < h /\ groups[g][1] # None) =>
                          PairLess(ByCategoryKey(groups[g]), ByCategoryKey(groups[h]))
               /\ \A g \in DOMAIN groups : \A i, j \in DOMAIN groups[g][2] :
                      i < j => ChannelKeyLess(groups[g][2][i], groups[g][2][j])
               /\ \A channel \in NonCategoryChannels :
                      Cardinality({<<g, i>> \in (DOMAIN groups) \X (1 .. Len(_channels)) :
                                      /\ i \in DOMAIN groups[g][2]
                                      /\ groups[g][2][i] = channel}) = 1
               /\ \A g \in DOMAIN groups : \A i \in DOMAIN groups[g][2] :
                      groups[g][2][i] \in NonCategoryChannels

-----------------------------------------------------------------------------
(* Guild.premium_tier after a load *)

\* The largest boost count of a snapshot
MaxBoosts == 15

\* Snapshots with a premium tier or none, a boost count or none, and features
\* with and without the override
PremiumSnapshots ==
    {Restrict([id |-> 1, premium_tier |-> tier, premium_subscription_count |-> count,
               features |-> fs], keys) :
        tier \in 0 .. 3,
        count \in 0 .. MaxBoosts,
        fs \in {<<>>, <<"COMMUNITY">>, <<"COMMUNITY", "PREMIUM_TIER_3_OVERRIDE">>},
        keys \in {{"id", "features"} \cup optional :
                     optional \in SUBSET {"premium_tier", "premium_subscription_count"}}}

InitPremium == \E data \in PremiumSnapshots : InitFrom(data, ConnectionState)

\* guild.premium_tier
PremiumTier ==
    /\ Becomes(Self)
    /\ last' = Called("premium_tier", None, _premium_tier # None,
                      Some(premium_tier(Self)), NoError)
    /\ UNCHANGED <<snapshot, chan_log>>

NextPremium == PremiumTier

SpecPremium == InitPremium /\ [][NextPremium]_vars

\* The tier the claim derives from a boost count
TierOfBoosts(count) ==
    IF count < 2 THEN 0 ELSE IF count < 7 THEN 1 ELSE IF count < 14 THEN 2 ELSE 3

\* C27: Guild.premium_tier is an integer from 0 to 3: the tier of the snapshot
\* when it carries one, otherwise 3 with the PREMIUM_TIER_3_OVERRIDE feature,
\* otherwise the tier derived from the boost count, which never decreases when
\* the boost count increases.
C27_PremiumTier ==
    last.op = "premium_tier" =>
        LET tier == last.ret[1]
            override == \E i \in DOMAIN snapshot.features :
                            snapshot.features[i] = "PREMIUM_TIER_3_OVERRIDE"
            count == PayloadGet(snapshot, "premium_subscription_count", 0)
        IN  /\ tier \in 0 .. 3
            /\ HasKey(snapshot, "premium_tier") => tier = snapshot.premium_tier
            /\ (~HasKey(snapshot, "premium_tier") /\ override) => tier = 3
            /\ (~HasKey(snapshot, "premium_tier") /\ ~override) =>
                   /\ tier = TierOfBoosts(count)
                   /\ \A fewer \in 0 .. count :
                          premium_tier([Self EXCEPT !.premium_subscription_count = fewer])
                              <= tier

\* A snapshot without a tier and without the override, with 14 boosts: tier 3
C27_Witness ==
    /\ last.op = "premium_tier"
    /\ _premium_tier = None
    /\ features = <<"COMMUNITY">>
    /\ premium_subscription_count = 14
    /\ last.ret = Some(3)

-----------------------------------------------------------------------------
(* utils.as_chunks: a generator over an iterable, run to its end.  The      *)
(* iterable is the sequence of its items, the generator the sequence of the *)
(* lists it yields.                                                         *)

MaxItems == 4
MaxChunkSize == 3

\* The for loop of _chunk over the items left, with the locals ret and n and the
\* lists yielded so far
RECURSIVE _chunk_loop(_, _, _, _, _)
_chunk_loop(items, max_size, ret, n, yielded) ==
    IF items = <<>> THEN [ret |-> ret, yielded |-> yielded]
    ELSE IF n + 1 = max_size
         THEN _chunk_loop(Tail(items), max_size, <<>>, 0,
                          Append(yielded, Append(ret, Head(items))))
         ELSE _chunk_loop(Tail(items), max_size, Append(ret, Head(items)), n + 1,
                          yielded)

\* A generator that ends with its loop and never yields what is left in ret
_chunk_without_rest(iterator, max_size) ==
    _chunk_loop(iterator, max_size, <<>>, 0, <<>>).yielded

\* _chunk(iterator, max_size): after the loop, 'if ret: yield ret'
_chunk(iterator, max_size) ==
    LET loop == _chunk_loop(iterator, max_size, <<>>, 0, <<>>)
    IN  IF loop.ret # <<>> THEN Append(loop.yielded, loop.ret) ELSE loop.yielded

\* as_chunks(iterator, max_size)
as_chunks(iterator, max_size) ==
    IF max_size <= 0 THEN [ret |-> None, raised |-> "ValueError"]
    ELSE [ret |-> Some(_chunk(iterator, max_size)), raised |-> NoError]

\* The iterables: the sequences of at most MaxItems items
RECURSIVE SeqsUpTo(_, _)
SeqsUpTo(items, n) ==
    IF n = 0 THEN {<<>>}
    ELSE LET shorter == SeqsUpTo(items, n - 1)
         IN  shorter \cup {Append(s, x) : s \in shorter, x \in items}

ChunkIterables == SeqsUpTo({"a", "b"}, MaxItems)

\* list(as_chunks(iterator, max_size))
AsChunks(iterator, max_size) ==
    LET r == as_chunks(iterator, max_size)
    IN  /\ last' = Called("as_chunks", [iterator |-> iterator, max_size |-> max_size],
                          FALSE, r.ret, r.raised)
        /\ UNCHANGED <<snowflakes, snowflake_ids, proxy, proxy_reads>>
        /\ GuildUntouched

InitChunks == InitFrom(UnavailableData(1), ConnectionState)

NextChunks ==
    \E iterator \in ChunkIterables : \E max_size \in -1 .. MaxChunkSize :
        AsChunks(iterator, max_size)

SpecChunks == InitChunks /\ [][NextChunks]_vars

\* The lists of a sequence of lists, one after the other
RECURSIVE Concatenated(_)
Concatenated(chunks) ==
    IF chunks = <<>> THEN <<>> ELSE Head(chunks) \o Concatenated(Tail(chunks))

\* C28: with max_size > 0 the chunks of as_chunks, one after the other, are the
\* input; every chunk but the last has max_size items and the last has between
\* 1 and max_size; with max_size <= 0 the call raises ValueError and yields
\* nothing.
C28_ChunksPartitionInput ==
    last.op = "as_chunks" =>
        LET iterator == last.arg.iterator
            max_size == last.arg.max_size
        IN  IF max_size > 0
            THEN /\ last.raised = NoError
                 /\ LET chunks == last.ret[1]
                    IN  /\ Concatenated(chunks) = iterator
                        /\ \A i \in DOMAIN chunks :
                               /\ Len(chunks[i]) \in 1 .. max_size
                               /\ i < Len(chunks) => Len(chunks[i]) = max_size
            ELSE /\ last.raised = "ValueError"
                 /\ last.ret = None

\* An input of four items in chunks of three: a full chunk and a last chunk of one
C28_Witness ==
    /\ last.op = "as_chunks"
    /\ last.arg.max_size = 3
    /\ Len(last.arg.iterator) = 4
    /\ last.raised = NoError
    /\ Len(last.ret[1]) = 2
    /\ Len(last.ret[1][2]) = 1

-----------------------------------------------------------------------------
(* The remove operations of the four stores and what they return *)

RemoveSnapshots ==
    {Snapshot(1, rs, cs, ts, <<>>, ms, <<>>) :
        rs \in {<<EveryoneRole>>, <<EveryoneRole, [id |-> 5, position |-> 1]>>},
        cs \in {<<>>, <<Category10, Text11>>},
        ts \in {<<>>, <<[id |-> 30, parent_id |-> 11]>>},
        ms \in {<<>>, <<[user_id |-> 20, presence |-> None]>>}}

InitRemoves == \E data \in RemoveSnapshots : InitFrom(data, ConnectionState)

NextRemoves ==
    \/ AddChannel(Text11)
    \/ \E channel_id \in ChannelIds : RemoveChannel(channel_id)
    \/ AddThread([id |-> 30, parent_id |-> 11])
    \/ RemoveThread(30)
    \/ AddMember([user_id |-> 20, presence |-> None])
    \/ RemoveMember(20)
    \/ AddRole([id |-> 5, position |-> 1])
    \/ RemoveRole(5)

SpecRemoves == InitRemoves /\ [][NextRemoves]_vars

\* The store a remove operation works on, before the call
RemovedFrom(op) ==
    CASE op = "_remove_channel" -> _channels
      [] op = "_remove_member" -> _members
      [] op = "_remove_thread" -> _threads
      [] op = "_remove_role" -> _roles

RemoveOperations == {"_remove_channel", "_remove_member", "_remove_thread", "_remove_role"}

\* C29: the remove operation of the channel, member, thread and role store
\* returns the entity it removed when the id was in the store, and a result that
\* says 'absent', without an exception, when it was not.
C29_RemoveReturnsEntity ==
    [][last'.op \in RemoveOperations =>
           /\ last'.raised = NoError
           /\ last'.ret = DictGet(RemovedFrom(last'.op), last'.arg)]_vars

\* C29, amended: the remove operations of the channel, member and thread stores
\* return nothing, whether the id was in the store or not, and never raise;
\* the remove operation of the role store returns the role it removed when the
\* id was in the store and raises KeyError when it was not.
C29_OnlyRoleRemoveReturns ==
    [][last'.op \in RemoveOperations =>
           IF last'.op = "_remove_role"
           THEN IF last'.hit
                THEN /\ last'.raised = NoError
                     /\ last'.ret = DictGet(_roles, last'.arg)
                     /\ last'.ret # None
                ELSE /\ last'.raised = "KeyError"
                     /\ last'.ret = None
           ELSE /\ last'.raised = NoError
                /\ last'.ret = None
                /\ last'.hit <=> DictHas(RemovedFrom(last'.op), last'.arg)]_vars

\* A channel that was in the store has been removed, and the call returned nothing
C29_Witness ==
    /\ last.op = "_remove_channel"
    /\ last.hit
    /\ last.ret = None
    /\ ~DictHas(_channels, last.arg)
    /\ _roles # <<>>

-----------------------------------------------------------------------------
(* The member store after a load, under every cache policy *)

\* The voice state of a user in channel 10, with the user's member data embedded
EmbeddingVoiceState(user_id) ==
    [SnapshotVoiceState(user_id, 10) EXCEPT
        !.member = Some([user_id |-> user_id, presence |-> None])]

\* A snapshot has at most one voice state for a user
AdmissionSnapshots ==
    {Snapshot(1, <<EveryoneRole>>, cs, <<>>, vss, ms, <<>>) :
        cs \in {<<>>, <<Voice10>>},
        vss \in {<<>>, <<SnapshotVoiceState(21, 10)>>, <<EmbeddingVoiceState(21)>>,
                 <<EmbeddingVoiceState(20), SnapshotVoiceState(21, 10)>>},
        ms \in {<<>>,
                <<[user_id |-> 20, presence |-> None]>>,
                <<[user_id |-> 21, presence |-> None]>>,
                <<[user_id |-> 21, presence |-> None],
                  [user_id |-> 20, presence |-> None]>>}}

AdmissionConnectionStates ==
    [member_cache_flags : [joined : BOOLEAN, voice : BOOLEAN], self_id : {20},
     member_updates : {TRUE}]

InitAdmission ==
    \E data \in AdmissionSnapshots : \E state \in AdmissionConnectionStates :
        InitFrom(data, state)

NextAdmission ==
    \/ \E data \in MemberData : data.presence = None /\ AddMember(data)
    \/ \E user_id \in UserIds : RemoveMember(user_id)

SpecAdmission == InitAdmission /\ [][NextAdmission]_vars

\* C30: after a load, a member of the snapshot's member list is in the member
\* store exactly when cache_flags.joined is set, or the member is the local
\* user, or cache_flags.voice is set and the user has a voice state.
C30_MemberAdmission ==
    last.op = "__init__" =>
        \A i \in DOMAIN snapshot.members :
            LET user_id == snapshot.members[i].user_id
            IN  DictHas(_members, user_id) <=>
                    \/ member_cache_flags.joined
                    \/ user_id = self_id
                    \/ (member_cache_flags.voice /\ DictHas(_voice_states, user_id))

\* With neither flag set, of the two members listed only the local user is cached
C30_Witness ==
    /\ last.op = "__init__"
    /\ ~member_cache_flags.joined
    /\ ~member_cache_flags.voice
    /\ Len(snapshot.members) = 2
    /\ DictHas(_voice_states, 21)
    /\ DictKeys(_members) = {self_id}

-----------------------------------------------------------------------------
(* The order of the loops of the snapshot loader *)

\* Channel lists in which the channel a voice state names comes first, comes
\* last, is of a skipped kind, or is missing
OrderChannelLists ==
    {<<>>, <<Voice10>>,
     <<Voice10, [Voice10 EXCEPT !.id = 11]>>,
     <<[Voice10 EXCEPT !.id = 11, !.type = "unknown"], Voice10>>}

\* At most one voice state for a user, in channel 10 or 11, with or without the
\* user's member data
OrderVoiceStateLists ==
    {<<>>} \cup
    {<<[SnapshotVoiceState(21, c) EXCEPT !.member = m]>> :
        c \in ChannelIds, m \in {None, Some([user_id |-> 21, presence |-> None])}} \cup
    {<<SnapshotVoiceState(20, c), SnapshotVoiceState(21, d)>> :
        c \in ChannelIds, d \in ChannelIds}

OrderSnapshots ==
    {Snapshot(1, <<EveryoneRole>>, cs, <<>>, vss, ms, <<>>) :
        cs \in OrderChannelLists,
        vss \in OrderVoiceStateLists,
        ms \in {<<>>,
                <<[user_id |-> 21, presence |-> None]>>,
                <<[user_id |-> 21, presence |-> None],
                  [user_id |-> 20, presence |-> None]>>}}

InitOrder ==
    \E data \in OrderSnapshots : \E state \in AdmissionConnectionStates :
        InitFrom(data, state)

NextOrder ==
    \/ \E channel_id \in ChannelIds : RemoveChannel(channel_id)
    \/ \E user_id \in UserIds : RemoveMember(user_id)

SpecOrder == InitOrder /\ [][NextOrder]_vars

\* The users of the snapshot's voice-state list
SnapshotVoiceUsers == {snapshot.voice_states[i].user_id : i \in DOMAIN snapshot.voice_states}

\* C31: the load resolves every voice state of the snapshot against the whole
\* channel list of the snapshot, wherever the channel stands in that list, and
\* tests every member of the snapshot for admission against the whole
\* voice-state list of the snapshot.
C31_LoadOrder ==
    (last.op = "__init__" /\ last.raised = NoError) =>
        /\ \A i \in DOMAIN snapshot.voice_states :
              LET vs == snapshot.voice_states[i]
              IN  /\ DictHas(_voice_states, vs.user_id)
                  /\ DictGet(_voice_states, vs.user_id)[1].channel =
                         ChannelRef(SnapshotChannel(snapshot.channels, vs.channel_id))
        /\ \A i \in DOMAIN snapshot.members :
              LET user_id == snapshot.members[i].user_id
              IN  DictHas(_members, user_id) <=>
                      \/ member_cache_flags.joined
                      \/ user_id = self_id
                      \/ (member_cache_flags.voice /\ user_id \in SnapshotVoiceUsers)

\* A voice state is resolved to a channel that stands last in the channel list,
\* and a member is admitted for the voice state that stands last in its list
C31_Witness ==
    /\ last.op = "__init__"
    /\ Len(snapshot.channels) = 2
    /\ snapshot.channels[2].id = 10
    /\ Len(snapshot.voice_states) = 2
    /\ DictGet(_voice_states, 21) = Some([channel |-> Some(10), self_mute |-> FALSE])
    /\ ~member_cache_flags.joined
    /\ member_cache_flags.voice
    /\ Len(snapshot.members) = 2
    /\ DictHas(_members, 21)

-----------------------------------------------------------------------------
(* The snapshot loader applied again to a loaded guild *)

\* guild._from_data(data) on the guild as it is, with the snapshot it was built from
Reload ==
    /\ snapshot # None
    /\ LET loaded == _from_data(Self @@ [raised |-> NoError], snapshot)
       IN  /\ Becomes(loaded)
           /\ last' = Called("_from_data", None, TRUE,
                             IF loaded.raised = NoError THEN Some("guild") ELSE None,
                             loaded.raised)
    /\ UNCHANGED <<snapshot, chan_log>>

InitReload ==
    \E data \in OrderSnapshots : \E state \in AdmissionConnectionStates :
        InitFrom(data, state)

NextReload == Reload

SpecReload == InitReload /\ [][NextReload]_vars

\* C32: a second load of the same snapshot leaves every store with the keys and
\* values the first load gave it.
C32_ReloadIdempotent ==
    [][(last.op = "__init__" /\ last'.op = "_from_data") =>
           /\ _roles' = _roles
           /\ _channels' = _channels
           /\ _threads' = _threads
           /\ _voice_states' = _voice_states
           /\ _members' = _members]_vars

-----------------------------------------------------------------------------
(* Guild.by_category after the deletion of a category that has channels *)

\* A category with an id of its own, so that both channels of ChannelIds can
\* stand beside it
Category12 ==
    [id |-> AbsentCategoryId, type |-> "category", position |-> 0, parent_id |-> None]

\* Channels without a category, or in the category while it is in the store
OrphanChannelData ==
    {c \in [id : ChannelIds, type : {"text", "voice"}, position : Positions,
            parent_id : {None, Some(Category12.id)}] :
        c.parent_id # None => DictHas(_channels, Category12.id)}

OrphanSnapshots ==
    {Snapshot(1, <<EveryoneRole>>, cs, <<>>, <<>>, <<>>, <<>>) :
        cs \in {<<>>,
                <<Category12, [Text11 EXCEPT !.parent_id = Some(Category12.id)],
                  Voice10>>}}

InitOrphans == \E data \in OrphanSnapshots : InitFrom(data, ConnectionState)

NextOrphans ==
    \/ AddChannel(Category12)
    \/ \E data \in OrphanChannelData : AddChannel(data)
    \/ \E channel_id \in ChannelIds \cup {Category12.id} : RemoveChannel(channel_id)
    \/ \E channel_lt \in {"TypeError", "less", "not less"} : ByCategory(channel_lt)

SpecOrphans == InitOrphans /\ [][NextOrphans]_vars

\* C33: by_category raises nothing and returns at most one group keyed None,
\* whatever the channel store holds, also after a category was deleted whose
\* channels are still in the store beside channels without a category.
C33_ByCategoryCompletes ==
    last.op = "by_category" =>
        /\ last.raised = NoError
        /\ Cardinality({g \in DOMAIN last.ret : last.ret[g][1] = None}) <= 1

-----------------------------------------------------------------------------
(* Voice-state updates that name a channel the channel store does not hold *)

Thread30 == [id |-> 30, parent_id |-> 10]

\* Channel 11 is of a kind the loader skips; thread 30 is in the thread store
ResolveSnapshots ==
    {Snapshot(1, <<EveryoneRole>>, cs, ts, vss, <<>>, <<>>) :
        cs \in {<<Voice10>>, <<Voice10, [Voice10 EXCEPT !.id = 11, !.type = "unknown"]>>},
        ts \in {<<>>, <<Thread30>>},
        vss \in {<<>>, <<SnapshotVoiceState(20, 10)>>}}

InitResolve ==
    \E data \in ResolveSnapshots : \E state \in VoiceConnectionStates :
        InitFrom(data, state)

NextResolve ==
    \/ \E data \in VoiceData(BOOLEAN, {20}) :
          \E channel_id \in {None} \cup {Some(c) : c \in ChannelIds \cup {Thread30.id}} :
              data.user_id = 20 /\ UpdateVoiceState(data, channel_id)
    \/ AddChannel(Voice10)
    \/ \E channel_id \in ChannelIds : RemoveChannel(channel_id)
    \/ AddThread(Thread30)
    \/ RemoveThread(Thread30.id)

SpecResolve == InitResolve /\ [][NextResolve]_vars

\* C34: a voice-state update that names a channel id the channel store does not
\* hold leaves the voice-state store as the same update with no channel would,
\* and returns the same before and after.
C34_AbsentChannelAsNull ==
    [][(/\ last'.op = "_update_voice_state"
        /\ last'.arg.channel_id # None
        /\ ~DictHas(_channels, last'.arg.channel_id[1])) =>
           LET null == _update_voice_state(Self, last'.arg.data, None)
           IN  /\ _voice_states' = null.self._voice_states
               /\ last'.ret.before = null.ret.before
               /\ last'.ret.after = null.ret.after
               /\ last'.ret.after.channel = None]_vars

\* A user in channel 10 gets an update naming channel 10 after the channel has
\* left the store: the entry is removed
C34_Witness ==
    /\ last.op = "_update_voice_state"
    /\ last.arg.channel_id = Some(10)
    /\ ~DictHas(_channels, 10)
    /\ last.hit
    /\ last.ret.before.channel = Some(10)
    /\ ~DictHas(_voice_states, 20)

-----------------------------------------------------------------------------
(* Guild._filter_threads over the thread store *)

\* guild._filter_threads(channel_ids)
FilterThreads(channel_ids) ==
    /\ Becomes(Self)
    /\ last' = Called("_filter_threads", channel_ids, FALSE,
                      _filter_threads(Self, channel_ids), NoError)
    /\ UNCHANGED <<snapshot, chan_log>>

InitFilter == \E data \in ThreadSnapshots : InitFrom(data, ConnectionState)

NextFilter ==
    \/ \E data \in ThreadData : AddThread(data)
    \/ \E thread_id \in ThreadIds : RemoveThread(thread_id)
    \/ \E channel_ids \in SUBSET ChannelIds : FilterThreads(channel_ids)

SpecFilter == InitFilter /\ [][NextFilter]_vars

\* C37: _filter_threads(channel_ids) returns the threads of the thread store
\* whose parent_id is in channel_ids, each under its id and once, and nothing
\* else; for the empty set it returns an empty mapping; it changes no store.
C37_FilterThreads ==
    [][last'.op = "_filter_threads" =>
           LET ret == last'.ret
               channel_ids == last'.arg
           IN  /\ DictKeys(ret) =
                      {_threads[i][1] :
                          i \in {j \in DOMAIN _threads :
                                    _threads[j][2].parent_id \in channel_ids}}
               /\ Len(ret) = Cardinality(DictKeys(ret))
               /\ \A i \in DOMAIN ret :
                      /\ ret[i][2].id = ret[i][1]
                      /\ DictGet(_threads, ret[i][1]) = Some(ret[i][2])
               /\ channel_ids = {} => ret = <<>>
               /\ UNCHANGED <<_roles, _channels, _threads, _voice_states, _members,
                              _presences>>]_vars

\* With a thread of channel 10 and a thread of channel 11 in the store, the
\* query for channel 10 returns the one and not the other
C37_Witness ==
    /\ last.op = "_filter_threads"
    /\ last.arg = {10}
    /\ \E i, j \in DOMAIN _threads :
          _threads[i][2].parent_id = 10 /\ _threads[j][2].parent_id = 11
    /\ Len(last.ret) = 1
    /\ last.ret[1][2].parent_id = 10

-----------------------------------------------------------------------------
(* The typed channel listings of the guild *)

\* The kind each listing is of
ListedKinds ==
    [text_channels |-> "text", voice_channels |-> "voice", stage_channels |-> "stage",
     categories |-> "category", forums |-> "forum", directory_channels |-> "directory"]

\* The channels events bring: channel 10 of every listed kind, any channel as a
\* text channel at every position.  _add_channel takes the channel as built by
\* its caller.
TypedChannelData ==
    {c \in [id : ChannelIds,
            type : {ListedKinds[l] : l \in DOMAIN ListedKinds} \ {"category"},
            position : Positions, parent_id : {None}] :
        c.type # "text" => (c.id = 10 /\ c.position = 0)}

\* guild.text_channels and the like
ListChannels(listing) ==
    /\ Becomes(Self)
    /\ last' = Called(listing, None, FALSE,
                      CASE listing = "text_channels" -> text_channels(Self)
                        [] listing = "voice_channels" -> voice_channels(Self)
                        [] listing = "stage_channels" -> stage_channels(Self)
                        [] listing = "categories" -> categories(Self)
                        [] listing = "forums" -> forums(Self)
                        [] listing = "directory_channels" -> directory_channels(Self),
                      NoError)
    /\ UNCHANGED <<snapshot, chan_log>>

InitTyped == \E data \in ChannelSnapshots : InitFrom(data, ConnectionState)

NextTyped ==
    \/ \E data \in TypedChannelData : AddChannel(data)
    \/ AddChannel(Category12)
    \/ \E channel_id \in ChannelIds \cup {Category12.id} : RemoveChannel(channel_id)
    \/ \E listing \in DOMAIN ListedKinds : ListChannels(listing)

SpecTyped == InitTyped /\ [][NextTyped]_vars

\* C38: each typed listing holds exactly the channels of its kind that are in
\* the channel store, each once, in ascending (position, id) order, after any
\* adds and removes of channels.
C38_TypedListings ==
    last.op \in DOMAIN ListedKinds =>
        LET listed == last.ret
            kind == ListedKinds[last.op]
            of_kind == {_channels[i][2] :
                           i \in {j \in DOMAIN _channels : _channels[j][2].type = kind}}
        IN  /\ {listed[i] : i \in DOMAIN listed} = of_kind
            /\ Len(listed) = Cardinality(of_kind)
            /\ \A i, j \in DOMAIN listed :
                   i < j => \/ listed[i].position < listed[j].position
                            \/ /\ listed[i].position = listed[j].position
                               /\ listed[i].id < listed[j].id

\* The store holds a text channel, then a text channel that sorts before it,
\* and a category: text_channels gives the two text channels in sorted order
C38_Witness ==
    /\ last.op = "text_channels"
    /\ Len(_channels) = 3
    /\ Len(last.ret) = 2
    /\ \E i, j \in DOMAIN _channels :
          /\ i < j
          /\ last.ret[1] = _channels[j][2]
          /\ last.ret[2] = _channels[i][2]

-----------------------------------------------------------------------------
(* utils.ExpiringString: a string that a threading.Timer clears.  A Timer   *)
(* is a thread that runs                                                     *)
(*     self.finished.wait(self.interval)                                     *)
(*     if not self.finished.is_set(): self.function()                        *)
(*     self.finished.set()                                                   *)
(* and cancel() is self.finished.set().  A timer is the record of the       *)
(* position of its thread and of its finished event; the threads take their *)
(* steps in any order.                                                       *)

\* The most timers a string starts
MaxTimers == 3

StringData == {"a", "b"}

\* Timer(timeout, self._destruct), started
Timer == [pc |-> "wait", finished |-> FALSE]

\* Timer.cancel()
Timer_cancel(timers, t) == [timers EXCEPT ![t].finished = TRUE]

\* A step of the ExpiringString or of one of its timers: nothing else changes
StringStep(string) ==
    /\ expiring' = string
    /\ Assigned(Self)
    /\ UNCHANGED <<snapshot, chan_log, snowflakes, snowflake_ids, proxy, proxy_reads,
                   requests, deleted>>

\* ExpiringString(data, timeout)
NewExpiringString(data) ==
    /\ expiring.pc = "none"
    /\ StringStep([data |-> data, _timer |-> Some(1), timers |-> <<Timer>>,
                   pc |-> "idle", local |-> ""])
    /\ last' = Called("ExpiringString", Some(data), FALSE, None, NoError)

\* _update(data, timeout), first statement: self._timer.cancel()
UpdateCancels(data) ==
    /\ expiring.pc = "idle"
    /\ Len(expiring.timers) < MaxTimers
    /\ StringStep([expiring EXCEPT
                      !.timers = Timer_cancel(@, expiring._timer[1]),
                      !.pc = "_update: self.data = data",
                      !.local = data])
    /\ UNCHANGED last

\* _update: self.data = data
UpdateAssigns ==
    /\ expiring.pc = "_update: self.data = data"
    /\ StringStep([expiring EXCEPT !.data = expiring.local,
                                   !.pc = "_update: self._timer = Timer"])
    /\ UNCHANGED last

\* _update: self._timer = Timer(timeout, self._destruct); self._timer.start();
\* the call returns
UpdateStartsTimer ==
    /\ expiring.pc = "_update: self._timer = Timer"
    /\ StringStep([expiring EXCEPT
                      !.timers = Append(@, Timer),
                      !._timer = Some(Len(expiring.timers) + 1),
                      !.pc = "idle",
                      !.local = ""])
    /\ last' = Called("ExpiringString._update", Some(expiring.local), FALSE,
                      None, NoError)

\* destroy(), first statement: self._destruct()
DestroyDestructs ==
    /\ expiring.pc = "idle"
    /\ StringStep([expiring EXCEPT !.data = "", !.pc = "destroy: self._timer.cancel()"])
    /\ UNCHANGED last

\* destroy: self._timer.cancel(); the call returns
DestroyCancels ==
    /\ expiring.pc = "destroy: self._timer.cancel()"
    /\ StringStep([expiring EXCEPT
                      !.timers = Timer_cancel(@, expiring._timer[1]),
                      !.pc = "idle"])
    /\ last' = Called("ExpiringString.destroy", None, FALSE, None, NoError)

\* Timer.run: finished.wait(interval) returns, the event being set or the
\* interval over
TimerWakes(t) ==
    /\ expiring.timers[t].pc = "wait"
    /\ StringStep([expiring EXCEPT !.timers[t].pc = "if not finished.is_set()"])
    /\ UNCHANGED last

\* Timer.run: if not self.finished.is_set()
TimerChecks(t) ==
    /\ expiring.timers[t].pc = "if not finished.is_set()"
    /\ StringStep([expiring EXCEPT
                      !.timers[t].pc = IF expiring.timers[t].finished
                                       THEN "finished.set()"
                                       ELSE "self.function()"])
    /\ UNCHANGED last

\* Timer.run: self.function(), which is _destruct: self.data = ''
TimerDestructs(t) ==
    /\ expiring.timers[t].pc = "self.function()"
    /\ StringStep([expiring EXCEPT !.data = "",
                                   !.timers[t].pc = "finished.set()"])
    /\ UNCHANGED last

\* Timer.run: self.finished.set(); the thread ends
TimerFinishes(t) ==
    /\ expiring.timers[t].pc = "finished.set()"
    /\ StringStep([expiring EXCEPT !.timers[t] = [pc |-> "done", finished |-> TRUE]])
    /\ UNCHANGED last

InitExpiring == InitFrom(UnavailableData(1), ConnectionState)

NextExpiring ==
    \/ \E data \in StringData : NewExpiringString(data)
    \/ \E data \in StringData : UpdateCancels(data)
    \/ UpdateAssigns
    \/ UpdateStartsTimer
    \/ DestroyDestructs
    \/ DestroyCancels
    \/ \E t \in DOMAIN expiring.timers : TimerWakes(t)
    \/ \E t \in DOMAIN expiring.timers : TimerChecks(t)
    \/ \E t \in DOMAIN expiring.timers : TimerDestructs(t)
    \/ \E t \in DOMAIN expiring.timers : TimerFinishes(t)

SpecExpiring == InitExpiring /\ [][NextExpiring]_vars

\* C39: once _update(data, timeout) has returned, the string is data for as
\* long as the timer it started is waiting for its interval, whatever the
\* threads of the earlier timers do; once destroy() has returned, the string is
\* empty until the next _update.
C39_UpdateOutlivesOldTimer ==
    expiring.pc = "idle" =>
        /\ (/\ last.op = "ExpiringString._update"
            /\ expiring.timers[expiring._timer[1]].pc = "wait") =>
               expiring.data = last.arg[1]
        /\ last.op = "ExpiringString.destroy" => expiring.data = ""

====
